---- MODULE Spec2Model ----
(***************************************************************************)
(* State-machine model of the Ionosphere media-correction engine           *)
(* (plugins/EstimationPlugin/src/base/measurement/Ionosphere/              *)
(* Ionosphere.cpp): lazy initialization from ap.dat / ig_rz.dat, the       *)
(* IRI2007 physics model (TEC, BendingAngle), the TRK-2-23 table model     *)
(* and the Correction() dispatcher.                                        *)
(*                                                                         *)
(* Representation of the C++ Real values:                                  *)
(*   - station / spacecraft positions and the Earth radius are integers    *)
(*     in units of 1000 km, so that the quadratic b^2 - 4ac of the         *)
(*     ray/shell intersection fits TLC's integers;                         *)
(*   - the roots d1, d2 are fixed-point numbers in 1/1000;                 *)
(*   - points on the clipped segment are integers in km, the step dR and   *)
(*     the interval length ds are integers in metres;                      *)
(*   - range corrections are integers in millimetres, the angle            *)
(*     correction is an integer in 1/10^9 rad, and the time correction     *)
(*     drho / c is the pair <<drho, c>>;                                   *)
(*   - epochs are GMAT modified Julian dates in whole hours                *)
(*     (MJD 0.0 = 05 Jan 1941 12:00:00);                                   *)
(*   - a quotient x / c that the model keeps exact is the pair <<x, c>>.   *)
(***************************************************************************)
EXTENDS Integers, Sequences, FiniteSets, TLC

\* --------------------------------------------------------------------------
\* Bounds of the model
\* --------------------------------------------------------------------------

\* Number of Initialize()/Correction() calls followed in one behaviour.
MaxCalls == 3

\* --------------------------------------------------------------------------
\* Program constants
\* --------------------------------------------------------------------------

\* Ionosphere::NUM_OF_INTERVALS
NUM_OF_INTERVALS == 200

\* Ionosphere::IONOSPHERE_MAX_ALTITUDE (2000.0 km, here in units of 1000 km)
IONOSPHERE_MAX_ALTITUDE == 2

\* GmatMathConstants::KM_TO_M
KM_TO_M == 1000

\* The constructor's value of the four packed dates
DEFAULT_YYYYMMDD == 20000101

VARIABLES
    \* ---- engine state (members of Ionosphere / MediaCorrection)
    modelTypeName,        \* "IRI2007", "TRK-2-23" or anything else
    isInitialized,
    igrz_yyyymmddMin, igrz_yyyymmddMax,
    ap_yyyymmddMin, ap_yyyymmddMax,
    igrz_WarningCount,
    waveLength, epoch, yyyy, mmdd, hours,
    stationLoc, spacecraftLoc, earthRadius,
    groundStationId, spacecraftId,
    DSNDatabase,
    \* ---- environment
    apFile, igrzFile,     \* the two files under dataPath/IonosphereData
    provider,             \* the electron-density provider (iri_sub__)
    \* ---- observation
    log,                  \* messages written by MessageInterface::ShowMessage
    outcome,              \* how the last call ended
    fileReads,            \* number of files the last call opened
    densityCalls,         \* number of iri_sub__ calls the last call made
    nCalls                \* number of Initialize()/Correction() calls so far

engineVars == <<modelTypeName, isInitialized, igrz_yyyymmddMin, igrz_yyyymmddMax,
                ap_yyyymmddMin, ap_yyyymmddMax, igrz_WarningCount>>
contextVars == <<waveLength, epoch, yyyy, mmdd, hours, stationLoc, spacecraftLoc,
                 earthRadius, groundStationId, spacecraftId>>
envVars == <<DSNDatabase, apFile, igrzFile, provider>>
obsVars == <<log, outcome, fileReads, densityCalls, nCalls>>
vars == <<engineVars, contextVars, envVars, obsVars>>

\* --------------------------------------------------------------------------
\* Integer helpers
\* --------------------------------------------------------------------------

Max(x, y) == IF x >= y THEN x ELSE y
Min(x, y) == IF x <= y THEN x ELSE y
Abs(x) == IF x < 0 THEN -x ELSE x

\* C++ integer division and the fixed-point quotient: truncation toward zero.
Quot(x, y) == IF (x >= 0) = (y > 0) THEN Abs(x) \div Abs(y) ELSE -(Abs(x) \div Abs(y))

\* Largest r in lo..hi with r*r <= x (lo*lo <= x is required).
RECURSIVE SqrtSearch(_, _, _)
SqrtSearch(x, lo, hi) ==
    IF lo >= hi THEN lo
    ELSE LET mid == (lo + hi + 1) \div 2
         IN  IF mid * mid <= x THEN SqrtSearch(x, mid, hi)
                               ELSE SqrtSearch(x, lo, mid - 1)

\* GmatMathUtil::Sqrt on a non-negative integer, rounded down.
ISqrt(x) == SqrtSearch(x, 0, 46340)

\* GmatMathUtil::Sqrt(x) in 1/1000: the largest m with m*m <= x * 10^6.
SqrtMilli(x) ==
    LET r == ISqrt(x)
        rest == (x - r * r) * 1000000
        FracOk(f) == 2 * r * 1000 * f + f * f <= rest
        RECURSIVE Frac(_, _)
        Frac(lo, hi) ==
            IF lo >= hi THEN lo
            ELSE LET mid == (lo + hi + 1) \div 2
                 IN  IF FracOk(mid) THEN Frac(mid, hi) ELSE Frac(lo, mid - 1)
    IN  r * 1000 + Frac(0, 999)

\* --------------------------------------------------------------------------
\* Outcomes of a call
\* --------------------------------------------------------------------------

\* A call returns, raises a MeasurementException, or never returns.
Returned(op, v) == [op |-> op, kind |-> "returned", error |-> "none", value |-> v]
Raised(op, e)   == [op |-> op, kind |-> "raised", error |-> e, value |-> <<>>]
Diverged(op)    == [op |-> op, kind |-> "diverged", error |-> "none", value |-> <<>>]
NoCall          == [op |-> "none", kind |-> "none", error |-> "none", value |-> <<>>]

\* --------------------------------------------------------------------------
\* The data files
\* --------------------------------------------------------------------------

\* A text file: whether it can be opened, its lines, and whether the last line
\* ends with a newline.  A line of ap.dat is its sequence of integer tokens
\* (<<>> is an empty line); the tokens of a line are separated by blanks and
\* the line carries no trailing blank.
ApFile(open, lines, finalNewline) ==
    [open |-> open, lines |-> lines, finalNewline |-> finalNewline]

\* std::getline(fs, theLine) after `idx` lines were consumed: the line read,
\* and the stream's eofbit.  On a stream that is not open nothing is read, the
\* string is left alone and only failbit is set.
GetLineStd(file, idx, theLine) ==
    IF ~file.open
    THEN [line |-> theLine, idx |-> idx, eof |-> FALSE]
    ELSE IF idx < Len(file.lines)
    THEN [line |-> file.lines[idx + 1], idx |-> idx + 1,
          eof |-> (idx + 1 = Len(file.lines)) /\ ~file.finalNewline]
    ELSE [line |-> <<>>, idx |-> idx, eof |-> TRUE]

\* A std::stringstream: the unread tokens and the state bits.
NewStream == [buf |-> <<>>, eof |-> FALSE, fail |-> FALSE]
Good(ss) == ~ss.eof /\ ~ss.fail

\* ss << theLine : nothing is inserted into a stream that is not good().
Insert(ss, line) ==
    IF Good(ss) THEN [ss EXCEPT !.buf = ss.buf \o line]
                ELSE [ss EXCEPT !.fail = TRUE]

\* ss.str("") : the buffer is replaced, the state bits stay.
ResetStr(ss) == [ss EXCEPT !.buf = <<>>]

\* ss >> v : the stream after the extraction and the value of v.  A failed
\* extraction leaves v as it was; a number that ends the buffer sets eofbit.
Extract(ss, v) ==
    IF ~Good(ss) THEN [ss |-> [ss EXCEPT !.fail = TRUE], val |-> v]
    ELSE IF ss.buf = <<>> THEN [ss |-> [ss EXCEPT !.eof = TRUE, !.fail = TRUE], val |-> v]
    ELSE [ss |-> [ss EXCEPT !.buf = Tail(ss.buf), !.eof = (Tail(ss.buf) = <<>>)],
          val |-> Head(ss.buf)]

\* ss >> year >> month >> day
Extract3(ss, year, month, day) ==
    LET e1 == Extract(ss, year)
        e2 == Extract(e1.ss, month)
        e3 == Extract(e2.ss, day)
    IN  [ss |-> e3.ss, year |-> e1.val, month |-> e2.val, day |-> e3.val]

\* if (year >= 58) year = 1900 + year; else year = 2000 + year;
APCentury(year) == IF year >= 58 THEN 1900 + year ELSE 2000 + year

\* while(!fs.eof()) { oldLine = theLine; std::getline(fs,theLine); }
\* The loop ends when eofbit is set; a stream that is not open never sets it.
RECURSIVE ReadToLastLine(_, _, _, _, _)
ReadToLastLine(file, idx, theLine, oldLine, eof) ==
    IF eof THEN [diverged |-> FALSE, theLine |-> theLine, oldLine |-> oldLine]
    ELSE IF ~file.open THEN [diverged |-> TRUE, theLine |-> theLine, oldLine |-> theLine]
    ELSE LET g == GetLineStd(file, idx, theLine)
         IN  ReadToLastLine(file, g.idx, g.line, theLine, g.eof)

\* try { fs.open(filename.c_str(), std::fstream::in); } catch(...) { throw ... }
\* fs.open() records a failure in the stream's state (failbit) and throws
\* nothing: no exceptions() mask is set on the stream, so the handler that
\* raises "file does not exist or cannot open" never runs.
OpenThrows(file) == FALSE

\* A variant that lets a range of a single day pass: max < min
RangeInvalidStrict(min, max) == max < min

\* max <= min : the range of a file is invalid
RangeInvalid(min, max) == max <= min

\* Ionosphere::GetAPTimeRange().  `junk` is the value the uninitialized locals
\* year, month and day happen to hold.
GetAPTimeRange(file, junk) ==
    LET first == GetLineStd(file, 0, <<>>)
        p1 == Extract3(Insert(NewStream, first.line), junk, junk, junk)
        yearMin == APCentury(p1.year)
        apMin == yearMin * 10000 + p1.month * 100 + p1.day
        loop == ReadToLastLine(file, first.idx, first.line, <<>>, first.eof)
        lastLine == IF loop.theLine = <<>> THEN loop.oldLine ELSE loop.theLine
        p2 == Extract3(Insert(ResetStr(p1.ss), lastLine), yearMin, p1.month, p1.day)
        apMax == APCentury(p2.year) * 10000 + p2.month * 100 + p2.day
    IN  IF OpenThrows(file)
        THEN [kind |-> "raised", error |-> "DataFileMissing", min |-> junk, max |-> junk]
        ELSE IF loop.diverged
        THEN [kind |-> "diverged", error |-> "none", min |-> apMin, max |-> apMin]
        ELSE IF RangeInvalid(apMin, apMax)
        THEN [kind |-> "raised", error |-> "InvalidTimeRange", min |-> apMin, max |-> apMax]
        ELSE [kind |-> "ok", error |-> "none", min |-> apMin, max |-> apMax]

\* A line of ig_rz.dat: blank, some text, or "monthMin,yearMin,monthMax,yearMax".
BlankLine == [kind |-> "blank"]
TextLine == [kind |-> "text"]
RangeLine(monthMin, yearMin, monthMax, yearMax) ==
    [kind |-> "range", monthMin |-> monthMin, yearMin |-> yearMin,
     monthMax |-> monthMax, yearMax |-> yearMax]
IgrzFile(open, lines) == [open |-> open, lines |-> lines]

\* do { GmatFileUtil::GetLine(&fs, theLine); theLine = Trim(theLine); }
\* while (theLine == "");
\* The index of the next non-blank line after `idx` lines were consumed, or 0
\* when there is none: GetLine gives "" at the end of the file and on a
\* stream that is not open, and the loop never ends.
RECURSIVE SkipBlankLines(_, _)
SkipBlankLines(file, idx) ==
    IF ~file.open \/ idx >= Len(file.lines) THEN 0
    ELSE IF file.lines[idx + 1].kind # "blank" THEN idx + 1
    ELSE SkipBlankLines(file, idx + 1)

\* A variant of the switch in which every fourth year is a leap year
DayMaxEveryFourthYear(monthMax, yearMax) ==
    IF monthMax = 2
    THEN IF yearMax % 4 = 0 THEN 29 ELSE 28
    ELSE IF monthMax \in {1, 3, 5, 7, 8, 10, 12} THEN 31
    ELSE 30

\* The last calendar day of monthMax / yearMax (the switch of GetIGRZTimeRange).
DayMax(monthMax, yearMax) ==
    IF monthMax = 2
    THEN IF ((yearMax % 4 = 0) /\ (yearMax % 100 # 0)) \/ (yearMax % 400 = 0)
         THEN 29 ELSE 28
    ELSE IF monthMax \in {1, 3, 5, 7, 8, 10, 12} THEN 31
    ELSE 30

\* Ionosphere::GetIGRZTimeRange().  A line that holds no numbers leaves
\* monthMin zero (the failed extraction) and the other three locals as they
\* were (`junk`).
GetIGRZTimeRange(file, junk) ==
    LET created == SkipBlankLines(file, 0)
        range == IF created = 0 THEN 0 ELSE SkipBlankLines(file, created)
        line == file.lines[range]
        isRange == line.kind = "range"
        monthMin == IF isRange THEN line.monthMin ELSE 0
        yearMin == IF isRange THEN line.yearMin ELSE junk
        monthMax == IF isRange THEN line.monthMax ELSE junk
        yearMax == IF isRange THEN line.yearMax ELSE junk
        igMin == yearMin * 10000 + monthMin * 100 + 1
        igMax == yearMax * 10000 + monthMax * 100 + DayMax(monthMax, yearMax)
    IN  IF OpenThrows(file)
        THEN [kind |-> "raised", error |-> "DataFileMissing", min |-> junk, max |-> junk]
        ELSE IF range = 0
        THEN [kind |-> "diverged", error |-> "none", min |-> junk, max |-> junk]
        ELSE IF RangeInvalid(igMin, igMax)
        THEN [kind |-> "raised", error |-> "InvalidTimeRange", min |-> igMin, max |-> igMax]
        ELSE [kind |-> "ok", error |-> "none", min |-> igMin, max |-> igMax]

\* --------------------------------------------------------------------------
\* Initialize()
\* --------------------------------------------------------------------------

\* A variant without the early return of Initialize()
NeverInitialized(inited) == FALSE

\* if (IsInitialized()) return true;
AlreadyInitialized(inited) == inited

\* What one Initialize() call does to the engine, given the members it reads.
\*   baseOk : the value of MediaCorrectionInterface::Initialize()
\*   errNo  : the error number load_all_files__ reports
\*   junk   : the value of the parsers' uninitialized locals
\* A range member keeps the value its parser assigned even when the parser
\* then raises; `reads` is the number of files the call opens.
InitializeCall(inited, apMin, apMax, igMin, igMax, apF, igF, baseOk, errNo, junk) ==
    LET same == [kind |-> "returned", error |-> "none", inited |-> inited,
                 apMin |-> apMin, apMax |-> apMax, igMin |-> igMin, igMax |-> igMax,
                 reads |-> 0]
        \* after GetAPTimeRange() ended as `ap` and, if called, GetIGRZTimeRange() as `ig`
        After(ap, ig) ==
            LET afterAp == [same EXCEPT !.apMin = ap.min, !.apMax = ap.max, !.reads = 1]
                afterIg == [afterAp EXCEPT !.igMin = ig.min, !.igMax = ig.max, !.reads = 2]
            IN  IF ap.kind = "raised" /\ ap.error = "DataFileMissing"
                THEN [same EXCEPT !.kind = "raised", !.error = ap.error, !.reads = 1]
                ELSE IF ap.kind = "diverged"
                THEN [same EXCEPT !.kind = "diverged", !.apMin = ap.min, !.reads = 1]
                ELSE IF ap.kind # "ok"
                THEN [afterAp EXCEPT !.kind = ap.kind, !.error = ap.error]
                ELSE IF ig.kind = "raised" /\ ig.error = "DataFileMissing"
                THEN [afterAp EXCEPT !.kind = "raised", !.error = ig.error, !.reads = 2]
                ELSE IF ig.kind = "diverged"
                THEN [afterAp EXCEPT !.kind = "diverged", !.reads = 2]
                ELSE IF ig.kind # "ok"
                THEN [afterIg EXCEPT !.kind = ig.kind, !.error = ig.error]
                ELSE IF errNo >= 1000
                THEN [afterIg EXCEPT !.kind = "raised", !.error = "DensityProviderError"]
                ELSE IF (1000 > errNo) /\ (errNo > 0)
                THEN [afterIg EXCEPT !.kind = "raised", !.error = "DensityProviderError"]
                ELSE [afterIg EXCEPT !.inited = TRUE]
    IN  IF AlreadyInitialized(inited) THEN same
        ELSE IF ~baseOk THEN same
        ELSE After(GetAPTimeRange(apF, junk), GetIGRZTimeRange(igF, junk))

\* --------------------------------------------------------------------------
\* Time
\* --------------------------------------------------------------------------

\* Calendar date of a Julian day number (Fliegel and Van Flandern).
GregorianOfJDN(jdn) ==
    LET l1 == jdn + 68569
        n  == (4 * l1) \div 146097
        l2 == l1 - (146097 * n + 3) \div 4
        i  == (4000 * (l2 + 1)) \div 1461001
        l3 == l2 - (1461 * i) \div 4 + 31
        j  == (80 * l3) \div 2447
        d  == l3 - (2447 * j) \div 80
        l4 == j \div 11
        m  == j + 2 - 12 * l4
        y  == 100 * (n - 49) + i + l4
    IN  [year |-> y, month |-> m, day |-> d]

\* TimeSystemConverter::Convert("A1ModJulian", ep, "", "UTCGregorian", ...)
\* for an epoch in whole hours.  The A1 - UTC offset is less than a minute
\* and the epochs of the model lie on whole hours from 01:00 to 23:00, so the
\* offset changes neither the date nor the whole hour.
ToGregorian(ep) ==
    LET g == GregorianOfJDN(2430000 + (ep + 12) \div 24)
    IN  [year |-> g.year, month |-> g.month, day |-> g.day, hour |-> (ep + 12) % 24]

\* ModifiedJulianDate(year, month, day, hour, minute, second) of the GMAT date
\* utilities, in whole hours, for minute = 0 and second = 0.
ModifiedJulianDate(year, month, day, hour) ==
    LET computeYearMon == (7 * (year + (month + 9) \div 12)) \div 4
        computeMonth == (275 * month) \div 9
        \* 367*year - computeYearMon + computeMonth + day + 1721013.5 - 2430000.0
        halfDays == 2 * (367 * year - computeYearMon + computeMonth + day - 708987) + 1
    IN  12 * halfDays + hour

\* Integer mjdate = yyyy * 10000 + mmdd;
PackedDate(year, monthDay) == year * 10000 + monthDay

\* --------------------------------------------------------------------------
\* Vectors (Rvector3)
\* --------------------------------------------------------------------------

VAdd(u, v) == <<u[1] + v[1], u[2] + v[2], u[3] + v[3]>>
VSub(u, v) == <<u[1] - v[1], u[2] - v[2], u[3] - v[3]>>
VScale(k, u) == <<k * u[1], k * u[2], k * u[3]>>
VQuot(u, k) == <<Quot(u[1], k), Quot(u[2], k), Quot(u[3], k)>>
Dot(u, v) == u[1] * v[1] + u[2] * v[2] + u[3] * v[3]
ZeroVector == <<0, 0, 0>>

\* Rvector3::GetMagnitude(), rounded down.  A long vector is measured in a
\* coarser unit so that the squares fit.
GetMagnitude(u) ==
    LET big == Max(Abs(u[1]), Max(Abs(u[2]), Abs(u[3])))
        k == big \div 26000 + 1
    IN  k * ISqrt(Dot(VQuot(u, k), VQuot(u, k)))

\* --------------------------------------------------------------------------
\* The electron-density provider
\* --------------------------------------------------------------------------

\* What iri_sub__ gives at a point: the error number `ier` and outf[1], the
\* electron density.  The provider is a function of the geocentric radius of
\* the point, in three layers: up to 6000 km, below 7000 km, and above.
ProviderLayers == {"surface", "low", "high"}
LayerOf(posKm) ==
    IF Dot(posKm, posKm) <= 6000 * 6000 THEN "surface"
    ELSE IF Dot(posKm, posKm) < 7000 * 7000 THEN "low" ELSE "high"

\* A variant that lets a negative density of the provider through
ElectronDensityUnclamped(prov, posKm) ==
    LET out == prov[LayerOf(posKm)]
    IN  IF out.error # 0
        THEN [ok |-> FALSE, error |-> "DensityProviderError", val |-> 0]
        ELSE [ok |-> TRUE, error |-> "none", val |-> out.density]

\* A variant that does not look at the error number of the provider
ElectronDensityUnchecked(prov, posKm) ==
    LET out == prov[LayerOf(posKm)]
    IN  [ok |-> TRUE, error |-> "none", val |-> IF out.density < 0 THEN 0 ELSE out.density]

\* Ionosphere::ElectronDensity(pos1), pos1 in km: raises when the provider
\* reports an error, and replaces a negative density by zero.
ElectronDensity(prov, posKm) ==
    LET out == prov[LayerOf(posKm)]
    IN  IF out.error # 0
        THEN [ok |-> FALSE, error |-> "DensityProviderError", val |-> 0]
        ELSE [ok |-> TRUE, error |-> "none", val |-> IF out.density < 0 THEN 0 ELSE out.density]

\* --------------------------------------------------------------------------
\* Geometry: the part of the station-spacecraft segment inside the shell
\* --------------------------------------------------------------------------

\* The coefficients of the quadratic |stationLoc + t*s|^2 = (earthRadius +
\* IONOSPHERE_MAX_ALTITUDE)^2 and its discriminant.
Quadratic(station, spacecraft, radius) ==
    LET s == VSub(spacecraft, station)
        a == Dot(s, s)
        b == 2 * Dot(station, s)
        c == Dot(station, station)
                - (radius + IONOSPHERE_MAX_ALTITUDE) * (radius + IONOSPHERE_MAX_ALTITUDE)
    IN  [s |-> s, a |-> a, b |-> b, c |-> c, discriminant |-> b * b - 4 * a * c]

\* Sqrt(x) < k and Sqrt(x) > k for an integer k, exactly.
SqrtLess(x, k) == k > 0 /\ x < k * k
SqrtMore(x, k) == k < 0 \/ x > k * k

\* The roots d1 = (-b - Sqrt(disc)) / (2a) and d2 = (-b + Sqrt(disc)) / (2a)
\* compared with 1 and with 0 (a > 0 whenever the discriminant is positive).
D1Above1(q) == SqrtLess(q.discriminant, -q.b - 2 * q.a)
D2Above1(q) == SqrtMore(q.discriminant, 2 * q.a + q.b)
D1Below0(q) == SqrtMore(q.discriminant, -q.b)
D2Below0(q) == SqrtLess(q.discriminant, q.b)

\* A variant without the test for a shell that lies behind the station
PathMissesShellAhead(q) ==
    \/ q.discriminant <= 0
    \/ D1Above1(q) /\ D2Above1(q)

\* The two early returns of TEC() and BendingAngle():
\*   if (discriminant <= 0) return 0;
\*   if ((d1 > 1 && d2 > 1) || (d1 < 0 && d2 < 0)) return 0;
PathMissesShell(q) ==
    \/ q.discriminant <= 0
    \/ (D1Above1(q) /\ D2Above1(q)) \/ (D1Below0(q) /\ D2Below0(q))

\* start = stationLoc + Max(d1, 0)*s and end = stationLoc + Min(d2, 1)*s, in km.
\* The roots are kept in 1/1000.
ClipToShell(station, q) ==
    LET root == SqrtMilli(q.discriminant)
        d1 == IF D1Below0(q) THEN 0 ELSE Quot(-q.b * 1000 - root, 2 * q.a)
        d2 == IF D2Above1(q) THEN 1000 ELSE Quot(-q.b * 1000 + root, 2 * q.a)
    IN  [start |-> VAdd(VScale(1000, station), VScale(d1, q.s)),
         end |-> VAdd(VScale(1000, station), VScale(d2, q.s))]

\* --------------------------------------------------------------------------
\* TEC()
\* --------------------------------------------------------------------------

\* A variant that samples the density at the start of the interval
TECPassAtStart(prov, start, dR, i) ==
    LET p1 == VAdd(start, VScale(i, dR))
        electdensity == ElectronDensity(prov, VQuot(p1, KM_TO_M))
        ds == GetMagnitude(dR)
    IN  IF ~electdensity.ok THEN electdensity
        ELSE [ok |-> TRUE, error |-> "none", val |-> electdensity.val * ds]

\* One pass of the loop of TEC(), the i-th (i = 0 .. NUM_OF_INTERVALS - 1):
\*    p2 = p1 + dR;  electdensity = ElectronDensity((p1+p2)/2);
\*    ds = (p2-p1).GetMagnitude()*KM_TO_M;  tec += electdensity*ds;  p1 = p2;
\* p1 is start + i*dR at pass i; p1 and dR are in metres.  The value is the
\* term the pass adds to tec, or the exception ElectronDensity raises.
TECPass(prov, start, dR, i) ==
    LET p1 == VAdd(start, VScale(i, dR))
        p2 == VAdd(p1, dR)
        mid == VQuot(VAdd(p1, p2), 2)
        electdensity == ElectronDensity(prov, VQuot(mid, KM_TO_M))
        ds == GetMagnitude(VSub(p2, p1))
    IN  IF ~electdensity.ok THEN electdensity
        ELSE [ok |-> TRUE, error |-> "none", val |-> electdensity.val * ds]

\* A result of the computation with the number of ElectronDensity() calls,
\* each one call of iri_sub__, made to get it
WithCalls(r, n) == [ok |-> r.ok, error |-> r.error, val |-> r.val, calls |-> n]

\* The passes lo .. hi of the loop in order: the sum of their terms, or the
\* exception of the first pass that raises (the later passes do not run),
\* and the number of passes run.
RECURSIVE TECLoop(_, _, _, _, _)
TECLoop(prov, start, dR, lo, hi) ==
    IF lo > hi THEN [ok |-> TRUE, error |-> "none", val |-> 0, calls |-> 0]
    ELSE IF lo = hi THEN WithCalls(TECPass(prov, start, dR, lo), 1)
    ELSE LET mid == (lo + hi) \div 2
             first == TECLoop(prov, start, dR, lo, mid)
             rest == TECLoop(prov, start, dR, mid + 1, hi)
         IN  IF ~first.ok THEN first
             ELSE IF ~rest.ok THEN WithCalls(rest, first.calls + rest.calls)
             ELSE [ok |-> TRUE, error |-> "none", val |-> first.val + rest.val,
                   calls |-> first.calls + rest.calls]

\* Ionosphere::TEC(): electrons per square metre along the clipped segment.
TEC(station, spacecraft, radius, prov) ==
    LET Integrate(seg) ==
            TECLoop(prov, VScale(KM_TO_M, seg.start),
                    VQuot(VScale(KM_TO_M, VSub(seg.end, seg.start)), NUM_OF_INTERVALS),
                    0, NUM_OF_INTERVALS - 1)
        Path(q) == IF PathMissesShell(q)
                   THEN [ok |-> TRUE, error |-> "none", val |-> 0, calls |-> 0]
                   ELSE Integrate(ClipToShell(station, q))
    IN  Path(Quadratic(station, spacecraft, radius))

\* --------------------------------------------------------------------------
\* Signal frequency
\* --------------------------------------------------------------------------

\* GmatPhysicalConstants::SPEED_OF_LIGHT_VACUUM, in the unit in which
\* freq = SPEED_OF_LIGHT_VACUUM / waveLength is a frequency in MHz for the
\* wave lengths of the model: a wave length of 2 is the S-band wave length.
SPEED_OF_LIGHT_VACUUM == 4590

\* Real freqSBand = 2295.0 * 1000000.0, in MHz
FREQ_S_BAND == 2295

\* Real freq = SPEED_OF_LIGHT_VACUUM / waveLength.  A wave length of 0.0 (the
\* constructor's value) gives +infinity, for which the value is 0 here: every
\* use below divides by freq and treats 0 as infinite.
Frequency(lambda) == IF lambda = 0 THEN 0 ELSE Quot(SPEED_OF_LIGHT_VACUUM, lambda)

\* x / (freq*freq), which is 0 for an infinite freq.
OverFreqSquared(x, freq) == IF freq = 0 THEN 0 ELSE Quot(x, freq * freq)

\* --------------------------------------------------------------------------
\* BendingAngle()
\* --------------------------------------------------------------------------

\* n = 1 - 40.3*density/(freq*freq), in 1/1000000
RefractionIndex(density, freq) == 1000000 - OverFreqSquared(403 * density * 100000, freq)

\* Tan(ACos(rangeVec.GetUnitVector()*r.GetUnitVector())) in 1/1000, from the
\* vectors in km: |rangeVec x r| / (rangeVec . r), the vectors taken in units
\* of 100 km.  The tangent is cut off at 20 (an incidence of 87 degrees).
\* GetUnitVector() of a zero vector raises.
TanIncidence(rangeVec, r) ==
    LET u == VQuot(rangeVec, 100)
        v == VQuot(r, 100)
        dot == Dot(u, v)
        cross == ISqrt(Dot(u, u) * Dot(v, v) - dot * dot)
        tan == IF dot = 0 THEN 20000 ELSE Quot(1000 * cross, dot)
    IN  IF rangeVec = ZeroVector \/ r = ZeroVector
        THEN [ok |-> FALSE, error |-> "ZeroVector", val |-> 0]
        ELSE [ok |-> TRUE, error |-> "none", val |-> Max(-20000, Min(20000, tan))]

\* One pass of the loop of BendingAngle(), the k-th (k = 1 .. NUM_OF_INTERVALS;
\* the code counts i = NUM_OF_INTERVALS down to 1):
\*    r_i = r_i1 - dR;  density_i = ElectronDensity(r_i);
\*    dtheta = ((n_i1 - n_i)/ n_i) * Tan(theta_i1);  dtheta_i1 += dtheta;
\*    r_i1 = r_i;  theta_i1 = ACos(...) - dtheta_i1;
\* r_i1 is end - (k-1)*dR at pass k, in metres; theta_i1 is the incidence at
\* r_i1.  The value is dtheta in 1/10^9 rad; the running correction dtheta_i1
\* that the code subtracts from theta_i1 is below the resolution of the
\* tangent and is left out of it.
BendingPass(prov, end, dR, rangeVec, freq, k) ==
    LET r_i1 == VSub(end, VScale(k - 1, dR))
        r_i == VSub(r_i1, dR)
        density_i1 == ElectronDensity(prov, VQuot(r_i1, KM_TO_M))
        density_i == ElectronDensity(prov, VQuot(r_i, KM_TO_M))
        n_i1 == RefractionIndex(density_i1.val, freq)
        n_i == RefractionIndex(density_i.val, freq)
        tan == TanIncidence(rangeVec, VQuot(r_i1, KM_TO_M))
    IN  IF ~density_i.ok THEN density_i
        ELSE IF rangeVec = ZeroVector \/ VQuot(r_i, KM_TO_M) = ZeroVector
        THEN [ok |-> FALSE, error |-> "ZeroVector", val |-> 0]
        ELSE [ok |-> TRUE, error |-> "none",
              val |-> Quot((n_i1 - n_i) * tan.val * 1000, Quot(n_i, 1000))]

\* The passes lo .. hi of the loop in order: the sum of their dtheta, or the
\* exception of the first pass that raises, and the number of passes run
\* (each pass calls ElectronDensity() once, for r_i).
RECURSIVE BendingLoop(_, _, _, _, _, _, _)
BendingLoop(prov, end, dR, rangeVec, freq, lo, hi) ==
    IF lo > hi THEN [ok |-> TRUE, error |-> "none", val |-> 0, calls |-> 0]
    ELSE IF lo = hi THEN WithCalls(BendingPass(prov, end, dR, rangeVec, freq, lo), 1)
    ELSE LET mid == (lo + hi) \div 2
             first == BendingLoop(prov, end, dR, rangeVec, freq, lo, mid)
             rest == BendingLoop(prov, end, dR, rangeVec, freq, mid + 1, hi)
         IN  IF ~first.ok THEN first
             ELSE IF ~rest.ok THEN WithCalls(rest, first.calls + rest.calls)
             ELSE [ok |-> TRUE, error |-> "none", val |-> first.val + rest.val,
                   calls |-> first.calls + rest.calls]

\* Ionosphere::BendingAngle(): the elevation angle's correction, in 1/10^9 rad.
BendingAngle(station, spacecraft, radius, lambda, prov) ==
    LET Negated(dtheta_i1) ==
            IF ~dtheta_i1.ok THEN WithCalls(dtheta_i1, 1 + dtheta_i1.calls)
            ELSE [ok |-> TRUE, error |-> "none", val |-> -dtheta_i1.val,
                  calls |-> 1 + dtheta_i1.calls]
        Integrate(seg, rangeVec, theta_i1, density_i1) ==
            IF ~theta_i1.ok THEN WithCalls(theta_i1, 0)
            ELSE IF ~density_i1.ok THEN WithCalls(density_i1, 1)
            ELSE Negated(BendingLoop(prov, VScale(KM_TO_M, seg.end),
                                     VQuot(VScale(KM_TO_M, rangeVec), NUM_OF_INTERVALS),
                                     rangeVec, Frequency(lambda), 1, NUM_OF_INTERVALS))
        Clipped(seg, rangeVec) ==
            Integrate(seg, rangeVec, TanIncidence(rangeVec, seg.end),
                      ElectronDensity(prov, seg.end))
        Segment(seg) == Clipped(seg, VSub(seg.end, seg.start))
        Path(q) == IF PathMissesShell(q)
                   THEN [ok |-> TRUE, error |-> "none", val |-> 0, calls |-> 0]
                   ELSE Segment(ClipToShell(station, q))
    IN  Path(Quadratic(station, spacecraft, radius))

\* --------------------------------------------------------------------------
\* CalculateIRI2007()
\* --------------------------------------------------------------------------

\* (min > mjdate) || (mjdate >= max) : the date is outside the range of a file
OutOfTimeRange(min, max, mjdate) == (min > mjdate) \/ (mjdate >= max)

\* Real drho = 40.3*tec / (freq*freq), in millimetres
RangeCorrection(tec, freq) == OverFreqSquared(Quot(tec, 1000) * 40300, freq)

\* The message of the ig_rz warning
IGRZ_WARNING == "Warning: The epoch is out of the time range of the ionosphere ig_rz.dat file. Ionospheric corrections are set to zero."

\* A variant that does not look at igrz_WarningCount
ShouldWarnAlways(igMin, igMax, mjdate, warningCount) ==
    OutOfTimeRange(igMin, igMax, mjdate)

\* if ((igrz_yyyymmddMin > mjdate) || (mjdate >= igrz_yyyymmddMax))
\*    if (igrz_WarningCount == 0) { ShowMessage(...); ++igrz_WarningCount; }
ShouldWarn(igMin, igMax, mjdate, warningCount) ==
    OutOfTimeRange(igMin, igMax, mjdate) /\ warningCount = 0

\* Ionosphere::CalculateIRI2007() after its Initialize() call returned, on the
\* members that call left: the messages it logs, the new igrz_WarningCount
\* and how it ends.
CalculateIRI2007(igMin, igMax, apMin, apMax, warningCount, year, monthDay, station, spacecraft, radius, lambda, prov) ==
    LET mjdate == PackedDate(year, monthDay)
        End(warn, kind, error, value, calls) ==
            [kind |-> kind, error |-> error, value |-> value, calls |-> calls,
             logged |-> IF warn THEN <<IGRZ_WARNING>> ELSE <<>>,
             warningCount |-> IF warn THEN warningCount + 1 ELSE warningCount]
        \* from the ap.dat test on; tec is TEC() and dphi is BendingAngle()
        Calculate(warn, freq, tec, dphi) ==
            LET drho == RangeCorrection(tec.val, freq)
                dtime == <<drho, SPEED_OF_LIGHT_VACUUM>>
            IN  IF OutOfTimeRange(apMin, apMax, mjdate)
                THEN End(warn, "raised", "DataOutOfRange", <<>>, 0)
                ELSE IF ~tec.ok THEN End(warn, "raised", tec.error, <<>>, tec.calls)
                ELSE IF ~dphi.ok
                THEN End(warn, "raised", dphi.error, <<>>, tec.calls + dphi.calls)
                ELSE End(warn, "returned", "none", <<drho, dphi.val, dtime>>,
                         tec.calls + dphi.calls)
    IN  Calculate(ShouldWarn(igMin, igMax, mjdate, warningCount), Frequency(lambda),
                  TEC(station, spacecraft, radius, prov),
                  BendingAngle(station, spacecraft, radius, lambda, prov))

\* --------------------------------------------------------------------------
\* Strings (std::string as a sequence of characters)
\* --------------------------------------------------------------------------

Digits == <<"0", "1", "2", "3", "4", "5", "6", "7", "8", "9">>
IsDigit(ch) == \E d \in 1..10 : Digits[d] = ch
DigitValue(ch) == (CHOOSE d \in 1..10 : Digits[d] = ch) - 1

\* std::string::substr(pos, n) and substr(pos), pos counted from 0
Substr(str, pos, n) == SubSeq(str, pos + 1, Min(Len(str), pos + n))
SubstrFrom(str, pos) == SubSeq(str, pos + 1, Len(str))

\* The value of a string of decimal digits
RECURSIVE DecimalValue(_)
DecimalValue(str) ==
    IF str = <<>> THEN 0
    ELSE 10 * DecimalValue(SubSeq(str, 1, Len(str) - 1)) + DigitValue(str[Len(str)])

\* GmatStringUtil::ToInteger(str, value): fails on anything that is not a
\* decimal number and then leaves value as it was; `value` is what the
\* variable held before the call.
ToInteger(str, value) ==
    IF str # <<>> /\ \A k \in 1..Len(str) : IsDigit(str[k])
    THEN DecimalValue(str) ELSE value

\* GmatStringUtil::RemoveAllBlanks(GmatStringUtil::ToString(n)) for n >= 0
RECURSIVE IntToString(_)
IntToString(n) == IF n < 10 THEN <<Digits[n + 1]>> ELSE IntToString(n \div 10) \o <<Digits[(n % 10) + 1]>>

STR_GDS == <<"G", "D", "S">>
STR_CAN == <<"C", "A", "N">>
STR_MAD == <<"M", "A", "D">>
STR_DSN_C10 == <<"D", "S", "N", "(", "C", "1", "0", ")">>
STR_DSN_C40 == <<"D", "S", "N", "(", "C", "4", "0", ")">>
STR_DSN_C60 == <<"D", "S", "N", "(", "C", "6", "0", ")">>
STR_DSN_OPEN == <<"D", "S", "N", "(">>
STR_DSN_OPEN0 == <<"D", "S", "N", "(", "0">>
STR_SCID_OPEN == <<"S", "C", "I", "D", "(">>
STR_CLOSE == <<")">>

\* --------------------------------------------------------------------------
\* The TRK-2-23 table model
\* --------------------------------------------------------------------------

\* A row of DSNDatabase: the fields [0] .. [7] of the code are the fields
\* 1 .. 8 here.
Row(signalType, modelType, coefs, recordType, validStart, validEnd, facility, spacecraft) ==
    <<signalType, modelType, coefs, recordType, validStart, validEnd, facility, spacecraft>>

\* A variant of GetTRK223Time() with the pivot at 68
GetTRK223TimePivot68(TRK223TimeLine) ==
    LET yy == ToInteger(Substr(TRK223TimeLine, 0, 2), 0)
        year == IF yy >= 68 /\ yy < 1000 THEN yy + 1900
                ELSE IF yy < 68 THEN yy + 2000 ELSE yy
        monthTRK == ToInteger(Substr(TRK223TimeLine, 3, 2), 0)
        day == ToInteger(Substr(TRK223TimeLine, 6, 2), 0)
        hour == ToInteger(Substr(TRK223TimeLine, 9, 2), 0)
    IN  ModifiedJulianDate(year, monthTRK, day, hour)

\* A variant of GetTRK223Time() with the pivot at 70
GetTRK223TimePivot70(TRK223TimeLine) ==
    LET yy == ToInteger(Substr(TRK223TimeLine, 0, 2), 0)
        year == IF yy >= 70 /\ yy < 1000 THEN yy + 1900
                ELSE IF yy < 70 THEN yy + 2000 ELSE yy
        monthTRK == ToInteger(Substr(TRK223TimeLine, 3, 2), 0)
        day == ToInteger(Substr(TRK223TimeLine, 6, 2), 0)
        hour == ToInteger(Substr(TRK223TimeLine, 9, 2), 0)
    IN  ModifiedJulianDate(year, monthTRK, day, hour)

\* Ionosphere::GetTRK223Time(): a time "YY MM DD HH MM" in whole hours of the
\* GMAT modified Julian date (the minutes of the tables of the model are 00).
GetTRK223Time(TRK223TimeLine) ==
    LET yy == ToInteger(Substr(TRK223TimeLine, 0, 2), 0)
        year == IF yy >= 69 /\ yy < 1000 THEN yy + 1900
                ELSE IF yy < 69 THEN yy + 2000 ELSE yy
        monthTRK == ToInteger(Substr(TRK223TimeLine, 3, 2), 0)
        day == ToInteger(Substr(TRK223TimeLine, 6, 2), 0)
        hour == ToInteger(Substr(TRK223TimeLine, 9, 2), 0)
    IN  ModifiedJulianDate(year, monthTRK, day, hour)

\* coefs[k] of the code (k from 0).  A read past the end of the array is
\* undefined; it gives `junk`.
Coef(coefs, k, junk) == IF k < Len(coefs) THEN coefs[k + 1] ELSE junk

\* Cos and Sin of a whole number of quarter turns
CosQuarter(q) == <<1, 0, -1, 0>>[(q % 4) + 1]
SinQuarter(q) == <<0, 1, 0, -1>>[(q % 4) + 1]

\* A variant of the loop of the TRIG branch that never increments count
RECURSIVE TrigSeriesFirstHarmonic(_, _, _, _, _)
TrigSeriesFirstHarmonic(coefs, quarters, i, count, junk) ==
    IF i >= Len(coefs) THEN 0
    ELSE Coef(coefs, i, junk) * CosQuarter(quarters * count)
         + Coef(coefs, i + 1, junk) * SinQuarter(quarters * count)
         + TrigSeriesFirstHarmonic(coefs, quarters, i + 2, count, junk)

\* The loop of the TRIG branch from index i on:
\*    for (Integer i = 2; i < coefs.size(); i++)
\*    { drho += coefs[i]*Cos(Time*count) + coefs[i + 1]*Sin(Time*count); count++; i++; }
\* `quarters` is Time*1 in quarter turns.
RECURSIVE TrigSeries(_, _, _, _, _)
TrigSeries(coefs, quarters, i, count, junk) ==
    IF i >= Len(coefs) THEN 0
    ELSE Coef(coefs, i, junk) * CosQuarter(quarters * count)
         + Coef(coefs, i + 1, junk) * SinQuarter(quarters * count)
         + TrigSeries(coefs, quarters, i + 2, count + 1, junk)

\* GmatMathUtil::Pow(Time, i) in 1/1000, Time in 1/1000
RECURSIVE PowMilli(_, _)
PowMilli(x, i) == IF i = 0 THEN 1000 ELSE Quot(PowMilli(x, i - 1) * x, 1000)

\* A variant of the loop of the NRMPOW branch that leaves out the last coefficient
RECURSIVE PowerSeriesButLast(_, _, _)
PowerSeriesButLast(coefs, x, i) ==
    IF i >= Len(coefs) - 1 THEN 0
    ELSE Quot(coefs[i + 1] * PowMilli(x, i), 1000) + PowerSeriesButLast(coefs, x, i + 1)

\* The loop of the NRMPOW branch from index i on:
\*    for (Integer i = 0; i < coefs.size(); i++) drho += coefs[i] * Pow(Time, i);
RECURSIVE PowerSeries(_, _, _)
PowerSeries(coefs, x, i) ==
    IF i >= Len(coefs) THEN 0
    ELSE Quot(coefs[i + 1] * PowMilli(x, i), 1000) + PowerSeries(coefs, x, i + 1)

\* A variant that rescales by the ratio of the frequencies, not by its square
RescaleLinear(drho, lambda) ==
    LET freq == Frequency(lambda)
    IN  IF freq = 0 THEN 0 ELSE drho * Quot(FREQ_S_BAND, freq)

\* Real freq = SPEED_OF_LIGHT_VACUUM / waveLength;  freqSBand = 2295.0 * 1000000.0;
\* drho = drho * (freqSBand / freq)*(freqSBand / freq);
\* For an infinite freq (0 here) the ratio is 0.
Rescale(drho, lambda) ==
    LET freq == Frequency(lambda)
    IN  IF freq = 0 THEN 0 ELSE drho * Quot(FREQ_S_BAND, freq) * Quot(FREQ_S_BAND, freq)

\* Ionosphere::TRK223Solver(TRK223Line, epochTime): the range correction of
\* one row in millimetres.  The coefficients of a row are in 1/1000, except
\* coefs[0] of a TRIG row, the period in seconds.  Time of the TRIG branch,
\* TWO_PI*(Time - spanStart)/coefs[0], is kept in whole quarter turns, which
\* is exact for the rows of the model; a zero period or a zero span (a
\* division by zero) is not among them and gives the angle, or the
\* normalized time, 0 here.
TRK223Solver(TRK223Line, epochTime, lambda, junk) ==
    LET modelType == TRK223Line[2]
        coefs == TRK223Line[3]
        epochStart == GetTRK223Time(TRK223Line[5])
        epochEnd == GetTRK223Time(TRK223Line[6])
        seconds == (epochTime - epochStart) * 3600
        span == (epochEnd - epochStart) * 3600
        period == Coef(coefs, 0, junk)
        quarters == IF period = 0 THEN 0 ELSE Quot(4 * seconds, period)
        normalized == IF span = 0 THEN 0 ELSE Quot(2000 * (seconds \div 3600), span \div 3600) - 1000
        drho == IF modelType = "CONST" THEN Coef(coefs, 0, junk)
                ELSE IF modelType = "TRIG"
                THEN Coef(coefs, 1, junk) + TrigSeries(coefs, quarters, 2, 1, junk)
                ELSE PowerSeries(coefs, normalized, 0)
    IN  IF modelType \notin {"CONST", "TRIG", "NRMPOW"}
        THEN [ok |-> FALSE, error |-> "UnsupportedModel", val |-> 0]
        ELSE [ok |-> TRUE, error |-> "none", val |-> Rescale(drho, lambda)]

\* A variant that puts station 50 in the complex of the stations 30 to 49
ComplexOfNumberUpTo50(stationNumber, name) ==
    IF stationNumber < 30 THEN STR_DSN_C10
    ELSE IF stationNumber <= 50 /\ stationNumber >= 30 THEN STR_DSN_C40
    ELSE STR_DSN_C60

\* if (stationNumber < 30) DSNComplexName = "DSN(C10)";
\* else if (stationNumber < 50 && stationNumber >= 30) DSNComplexName = "DSN(C40)";
\* else if (stationNumber >= 50) DSNComplexName = "DSN(C60)";
\* `name` is DSNComplexName as it stands before the tests.
ComplexOfNumber(stationNumber, name) ==
    IF stationNumber < 30 THEN STR_DSN_C10
    ELSE IF stationNumber < 50 /\ stationNumber >= 30 THEN STR_DSN_C40
    ELSE IF stationNumber >= 50 THEN STR_DSN_C60
    ELSE name

\* The station key and the complex key CalculateTRK223() works with.
\* `junk` is the value of the uninitialized stationNumber, which ToInteger
\* leaves alone when the identifier is not a number.
StationKeys(stationId, junk) ==
    LET id1 == IF stationId = STR_GDS THEN STR_DSN_C10
               ELSE IF stationId = STR_CAN THEN STR_DSN_C40
               ELSE IF stationId = STR_MAD THEN STR_DSN_C60
               ELSE stationId
        name1 == IF stationId \in {STR_GDS, STR_CAN, STR_MAD} THEN id1 ELSE <<>>
        stationNumber == IF Substr(id1, 0, 1) = <<"C">>
                         THEN ToInteger(SubstrFrom(id1, 1), junk)
                         ELSE ToInteger(id1, junk)
        id2 == IF Len(id1) < 3 THEN STR_DSN_OPEN0 \o id1 \o STR_CLOSE
               ELSE STR_DSN_OPEN \o id1 \o STR_CLOSE
    IN  [groundStationId |-> id2, DSNComplexName |-> ComplexOfNumber(stationNumber, name1)]

\* std::string spacecraftName = "SCID(" + RemoveAllBlanks(ToString(spacecraftId)) + ")"
SpacecraftName(id) == STR_SCID_OPEN \o IntToString(id) \o STR_CLOSE

\* A variant that leaves the end out of the window
InValidityWindowHalfOpen(row, ep) == GetTRK223Time(row[5]) <= ep /\ GetTRK223Time(row[6]) > ep

\* GetTRK223Time(row[4]) <= epoch && GetTRK223Time(row[5]) >= epoch
InValidityWindow(row, ep) == GetTRK223Time(row[5]) <= ep /\ GetTRK223Time(row[6]) >= ep

\* A variant of the test for the complex key without the test of the record type
MatchesComplexAnyRecordType(row, keys, scName, ep) ==
    /\ row[8] = scName
    /\ row[1] = "DOPRNG" \/ row[1] = "RANGE"
    /\ row[7] = keys.DSNComplexName
    /\ InValidityWindow(row, ep)

\* The tests of the scan on one row, for the complex key and, when the
\* facility is not the complex key, for the station key.
MatchesComplex(row, keys, scName, ep) ==
    /\ row[8] = scName
    /\ row[1] = "DOPRNG" \/ row[1] = "RANGE"
    /\ row[7] = keys.DSNComplexName
    /\ InValidityWindow(row, ep)
    /\ row[4] = "CHPART"
MatchesStation(row, keys, scName, ep) ==
    /\ row[8] = scName
    /\ row[1] = "DOPRNG" \/ row[1] = "RANGE"
    /\ row[7] # keys.DSNComplexName
    /\ row[7] = keys.groundStationId
    /\ InValidityWindow(row, ep)
    /\ row[4] = "CHPART"

\* A variant of the scan that keeps the first row that passes the test
RECURSIVE ScanTableFirst(_, _, _, _, _, _, _)
ScanTableFirst(level, db, keys, scName, ep, i, ionoLine) ==
    IF i > Len(db) THEN ionoLine
    ELSE ScanTableFirst(level, db, keys, scName, ep, i + 1,
                        IF ionoLine = 0
                           /\ IF level = "complex"
                              THEN MatchesComplex(db[i], keys, scName, ep)
                              ELSE MatchesStation(db[i], keys, scName, ep)
                        THEN i ELSE ionoLine)

\* for (UnsignedInt i = 0; i < DSNDatabase.size(); ++i) ... ionoLine[.] = i;
\* The scan of the rows i .. end with ionoLine as it stands: the index (from
\* 1 here, 0 for the code's -1) of the last row that passes the test of the
\* level ("complex" for ionoLine[0], "station" for ionoLine[1]).
RECURSIVE ScanTable(_, _, _, _, _, _, _)
ScanTable(level, db, keys, scName, ep, i, ionoLine) ==
    IF i > Len(db) THEN ionoLine
    ELSE ScanTable(level, db, keys, scName, ep, i + 1,
                   IF IF level = "complex"
                      THEN MatchesComplex(db[i], keys, scName, ep)
                      ELSE MatchesStation(db[i], keys, scName, ep)
                   THEN i ELSE ionoLine)

\* A variant that also asks for a station-level record
NoComplexOrStationRecord(ionoLine0, ionoLine1) == ionoLine0 = 0 \/ ionoLine1 = 0

\* if (ionoLine[0] != -1) correction = TRK223Solver(...); else throw ...
\* The test that raises "Unable to find ionospheric correction"; the index 0
\* is the code's -1.
NoComplexRecord(ionoLine0, ionoLine1) == ionoLine0 = 0

\* Ionosphere::CalculateTRK223(): how the call ends and the groundStationId it
\* leaves in the engine.
CalculateTRK223(stationId, scId, db, ep, lambda, junk) ==
    LET End(keys, kind, error, value) ==
            [kind |-> kind, error |-> error, value |-> value,
             groundStationId |-> keys.groundStationId]
        Output(keys, drho) ==
            End(keys, "returned", "none", <<drho, 0, <<drho, SPEED_OF_LIGHT_VACUUM>>>>)
        AddStation(keys, ionoLine1, complex, station) ==
            IF ionoLine1 # 0 /\ ~station.ok THEN End(keys, "raised", station.error, <<>>)
            ELSE Output(keys, complex.val + (IF ionoLine1 # 0 THEN station.val ELSE 0))
        Solve(keys, ionoLine1, complex) ==
            IF ~complex.ok THEN End(keys, "raised", complex.error, <<>>)
            ELSE AddStation(keys, ionoLine1, complex,
                            IF ionoLine1 # 0
                            THEN TRK223Solver(db[ionoLine1], ep, lambda, junk)
                            ELSE [ok |-> TRUE, error |-> "none", val |-> 0])
        Found(keys, ionoLine0, ionoLine1) ==
            IF NoComplexRecord(ionoLine0, ionoLine1)
            THEN End(keys, "raised", "RecordNotFound", <<>>)
            ELSE Solve(keys, ionoLine1, TRK223Solver(db[ionoLine0], ep, lambda, junk))
        Scan(keys, spacecraftName) ==
            Found(keys, ScanTable("complex", db, keys, spacecraftName, ep, 1, 0),
                  ScanTable("station", db, keys, spacecraftName, ep, 1, 0))
    IN  Scan(StationKeys(stationId, junk), SpacecraftName(scId))

\* --------------------------------------------------------------------------
\* The operations of the engine
\* --------------------------------------------------------------------------

\* The message Correction() logs and raises for a model it does not know
UNRECOGNIZED_MODEL == "Ionosphere::Correction: Unrecognized Ionosphere model used. Supported models are IRI2007 and TRK-2-23"

\* A call is followed while the engine's thread is alive: a call that never
\* returns is the last one.
CanCall == outcome.kind # "diverged" /\ nCalls < MaxCalls

\* bool Ionosphere::SetWaveLength(Real lambda)
SetWaveLength(lambda) ==
    /\ outcome.kind # "diverged"
    /\ waveLength' = lambda
    /\ UNCHANGED <<engineVars, epoch, yyyy, mmdd, hours, stationLoc, spacecraftLoc,
                   earthRadius, groundStationId, spacecraftId, envVars, obsVars>>

\* bool Ionosphere::SetTime(GmatEpoch ep)
SetTime(ep) ==
    LET time == ToGregorian(ep)
    IN  /\ outcome.kind # "diverged"
        /\ epoch' = ep
        /\ yyyy' = time.year
        /\ mmdd' = time.month * 100 + time.day
        /\ hours' = time.hour
        /\ UNCHANGED <<engineVars, waveLength, stationLoc, spacecraftLoc, earthRadius,
                       groundStationId, spacecraftId, envVars, obsVars>>

\* bool Ionosphere::SetStationPosition(Rvector3 p)
SetStationPosition(p) ==
    /\ outcome.kind # "diverged"
    /\ stationLoc' = p
    /\ UNCHANGED <<engineVars, waveLength, epoch, yyyy, mmdd, hours, spacecraftLoc,
                   earthRadius, groundStationId, spacecraftId, envVars, obsVars>>

\* bool Ionosphere::SetSpacecraftPosition(Rvector3 p)
SetSpacecraftPosition(p) ==
    /\ outcome.kind # "diverged"
    /\ spacecraftLoc' = p
    /\ UNCHANGED <<engineVars, waveLength, epoch, yyyy, mmdd, hours, stationLoc,
                   earthRadius, groundStationId, spacecraftId, envVars, obsVars>>

\* bool Ionosphere::SetEarthRadius(Real r)
SetEarthRadius(r) ==
    /\ outcome.kind # "diverged"
    /\ earthRadius' = r
    /\ UNCHANGED <<engineVars, waveLength, epoch, yyyy, mmdd, hours, stationLoc,
                   spacecraftLoc, groundStationId, spacecraftId, envVars, obsVars>>

\* bool Ionosphere::Initialize().  A call that returns, returns true.
Initialize(baseOk, errNo, junk) ==
    LET Ended(init) ==
            /\ isInitialized' = init.inited
            /\ ap_yyyymmddMin' = init.apMin
            /\ ap_yyyymmddMax' = init.apMax
            /\ igrz_yyyymmddMin' = init.igMin
            /\ igrz_yyyymmddMax' = init.igMax
            /\ fileReads' = init.reads
            /\ densityCalls' = 0
            /\ outcome' = [op |-> "Initialize", kind |-> init.kind,
                           error |-> init.error, value |-> <<>>]
    IN  /\ CanCall
        /\ nCalls' = nCalls + 1
        /\ Ended(InitializeCall(isInitialized, ap_yyyymmddMin, ap_yyyymmddMax,
                                igrz_yyyymmddMin, igrz_yyyymmddMax, apFile, igrzFile,
                                baseOk, errNo, junk))
        /\ UNCHANGED <<modelTypeName, igrz_WarningCount, contextVars, envVars, log>>

\* A variant that runs the physics model for every name but "TRK-2-23"
SelectedModelOrPhysics(name) == IF name = "TRK-2-23" THEN "TRK-2-23" ELSE "IRI2007"

\* if (modelTypeName == "IRI2007") ... else if (modelTypeName == "TRK-2-23") ... else ...
SelectedModel(name) ==
    IF name = "IRI2007" THEN "IRI2007"
    ELSE IF name = "TRK-2-23" THEN "TRK-2-23"
    ELSE "unrecognized"

\* RealArray Ionosphere::Correction().  baseOk, errNo and junk are the inputs
\* of the Initialize() call CalculateIRI2007() makes; junk is also the value of
\* the uninitialized stationNumber and of a read past the coefficients in
\* CalculateTRK223().
Correction(baseOk, errNo, junk) ==
    LET Ended(r) ==
            outcome' = [op |-> "Correction", kind |-> r.kind, error |-> r.error,
                        value |-> IF r.kind = "returned" THEN r.value ELSE <<>>]
        Calculated(iri) ==
            /\ Ended(iri)
            /\ densityCalls' = iri.calls
            /\ igrz_WarningCount' = iri.warningCount
            /\ log' = log \o iri.logged
        Physics(init) ==
            /\ isInitialized' = init.inited
            /\ ap_yyyymmddMin' = init.apMin
            /\ ap_yyyymmddMax' = init.apMax
            /\ igrz_yyyymmddMin' = init.igMin
            /\ igrz_yyyymmddMax' = init.igMax
            /\ fileReads' = init.reads
            /\ IF init.kind # "returned"
               THEN /\ Ended(init)
                    /\ densityCalls' = 0
                    /\ UNCHANGED <<igrz_WarningCount, log>>
               ELSE Calculated(CalculateIRI2007(init.igMin, init.igMax, init.apMin,
                                                init.apMax, igrz_WarningCount, yyyy, mmdd,
                                                stationLoc, spacecraftLoc, earthRadius,
                                                waveLength, provider))
            /\ UNCHANGED groundStationId
        Empirical(trk) ==
            /\ groundStationId' = trk.groundStationId
            /\ Ended(trk)
            /\ fileReads' = 0
            /\ densityCalls' = 0
            /\ UNCHANGED <<isInitialized, ap_yyyymmddMin, ap_yyyymmddMax,
                           igrz_yyyymmddMin, igrz_yyyymmddMax, igrz_WarningCount, log>>
    IN  /\ CanCall
        /\ nCalls' = nCalls + 1
        /\ IF SelectedModel(modelTypeName) = "IRI2007"
           THEN Physics(InitializeCall(isInitialized, ap_yyyymmddMin, ap_yyyymmddMax,
                                       igrz_yyyymmddMin, igrz_yyyymmddMax, apFile,
                                       igrzFile, baseOk, errNo, junk))
           ELSE IF SelectedModel(modelTypeName) = "TRK-2-23"
           THEN Empirical(CalculateTRK223(groundStationId, spacecraftId, DSNDatabase,
                                          epoch, waveLength, junk))
           ELSE /\ log' = Append(log, UNRECOGNIZED_MODEL)
                /\ outcome' = [op |-> "Correction", kind |-> "raised",
                               error |-> "UnrecognizedModel", value |-> <<>>]
                /\ fileReads' = 0
                /\ densityCalls' = 0
                /\ UNCHANGED <<isInitialized, ap_yyyymmddMin, ap_yyyymmddMax,
                               igrz_yyyymmddMin, igrz_yyyymmddMax, igrz_WarningCount,
                               groundStationId>>
        /\ UNCHANGED <<modelTypeName, waveLength, epoch, yyyy, mmdd, hours, stationLoc,
                       spacecraftLoc, earthRadius, spacecraftId, envVars>>

\* --------------------------------------------------------------------------
\* The engine after construction and configuration
\* --------------------------------------------------------------------------

\* Ionosphere::Ionosphere(nomme), then the owner's configuration of the
\* members of the base class (model name, Earth radius, station and
\* spacecraft identifiers, the loaded TRK-2-23 table) in the environment
\* (the two data files and the density provider) the engine runs in.
Constructed(model, radius, stationId, scId, db, apF, igF, prov) ==
    /\ modelTypeName = model
    /\ isInitialized = FALSE
    /\ igrz_yyyymmddMin = DEFAULT_YYYYMMDD
    /\ igrz_yyyymmddMax = DEFAULT_YYYYMMDD
    /\ ap_yyyymmddMin = DEFAULT_YYYYMMDD
    /\ ap_yyyymmddMax = DEFAULT_YYYYMMDD
    /\ igrz_WarningCount = 0
    /\ waveLength = 0
    /\ epoch = 0
    /\ yyyy = 0
    /\ mmdd = 0
    /\ hours = 0
    /\ stationLoc = ZeroVector
    /\ spacecraftLoc = ZeroVector
    /\ earthRadius = radius
    /\ groundStationId = stationId
    /\ spacecraftId = scId
    /\ DSNDatabase = db
    /\ apFile = apF
    /\ igrzFile = igF
    /\ provider = prov
    /\ log = <<>>
    /\ outcome = NoCall
    /\ fileReads = 0
    /\ densityCalls = 0
    /\ nCalls = 0

\* ---- the data files of the model

\* ap.dat rows "yy mm dd ap..." from 30 Dec 1999 to 02 Jan 2000
ApRows == << <<99, 12, 30, 7>>, <<99, 12, 31, 5>>, <<0, 1, 1, 4>>, <<0, 1, 2, 7>> >>
ApGood == ApFile(TRUE, ApRows, TRUE)
ApFiles ==
    { ApGood,
      ApFile(TRUE, ApRows, FALSE),                         \* no newline at the end
      ApFile(TRUE, ApRows \o << <<>> >>, TRUE),            \* an empty last line
      ApFile(TRUE, ApRows \o << <<>>, <<>> >>, TRUE),      \* two empty last lines
      ApFile(TRUE, << <<>> >> \o ApRows, TRUE),            \* an empty first line
      ApFile(FALSE, <<>>, FALSE),                          \* cannot be opened
      ApFile(TRUE, <<>>, FALSE),                           \* empty
      ApFile(TRUE, << <<99, 12, 30, 7>> >>, TRUE),         \* a single row
      ApFile(TRUE, << <<0, 1, 2, 7>>, <<99, 12, 30, 7>> >>, TRUE),   \* rows reversed
      ApFile(TRUE, << <<99, 12, 30>>, <<0, 1, 2>> >>, TRUE) }        \* rows of three numbers

\* ig_rz.dat: the line of the creation date, then the line of the range
IgrzJanuary == IgrzFile(TRUE, <<TextLine, RangeLine(1, 2000, 1, 2000)>>)
IgrzWide == IgrzFile(TRUE, <<BlankLine, TextLine, BlankLine, RangeLine(11, 1999, 2, 2000)>>)
IgrzFiles ==
    { IgrzJanuary, IgrzWide,
      IgrzFile(FALSE, <<>>),                                         \* cannot be opened
      IgrzFile(TRUE, <<TextLine>>),                                  \* no range line
      IgrzFile(TRUE, <<TextLine, RangeLine(2, 2000, 1, 2000)>>),     \* max before min
      IgrzFile(TRUE, <<TextLine, TextLine>>) }                       \* no numbers

\* ---- the density providers of the model: <<ier, outf[1]>> in each layer
\* The surface layer answers as the low layer, but for FailingAtSurface.
ProviderOf(lowError, lowDensity, highError, highDensity) ==
    [surface |-> [error |-> lowError, density |-> lowDensity],
     low |-> [error |-> lowError, density |-> lowDensity],
     high |-> [error |-> highError, density |-> highDensity]]
Layered == ProviderOf(0, 3, 0, 1)
Uniform == ProviderOf(0, 2, 0, 2)
FailingAtSurface == [Layered EXCEPT !.surface = [error |-> 5, density |-> 0]]
Providers ==
    { Layered, Uniform, FailingAtSurface, ProviderOf(0, 2, 5, 0), ProviderOf(0, -2, 0, 1) }

\* ---- inputs of the calls
ErrNos == {0, 5, 1000}
JunkValues == {0, 40, 99}

\* The epoch of noon on a calendar day
Noon(year, month, day) == ModifiedJulianDate(year, month, day, 12)
Epochs == { Noon(1999, 12, 29), Noon(1999, 12, 30), Noon(1999, 12, 31), Noon(2000, 1, 1),
            Noon(2000, 1, 2), Noon(2000, 1, 3) }

Stations == { <<6, 0, 0>>, <<10, 0, 0>>, <<12, 0, 0>> }
Spacecrafts == { <<6, 0, 0>>, <<10, 0, 0>>, <<12, 0, 0>>, <<10, 5, 0>>, <<6, 7, 0>> }

\* --------------------------------------------------------------------------
\* Lazy initialization over the data files
\* --------------------------------------------------------------------------

InitFiles ==
    \E apF \in ApFiles, igF \in IgrzFiles :
        Constructed("IRI2007", 6, <<"1", "5">>, 12, <<>>, apF, igF, Layered)

NextFiles ==
    \/ \E baseOk \in BOOLEAN, errNo \in ErrNos, junk \in JunkValues :
           Initialize(baseOk, errNo, junk)
    \/ \E baseOk \in BOOLEAN, errNo \in ErrNos, junk \in JunkValues :
           Correction(baseOk, errNo, junk)
    \/ \E ep \in {Noon(2000, 1, 1)} : SetTime(ep)

SpecFiles == InitFiles /\ [][NextFiles]_vars

\* A step that is a call of `op`
CallOf(op) == nCalls' = nCalls + 1 /\ outcome'.op = op

\* C6: a call that tries to open an ap.dat or an ig_rz.dat that cannot be
\* opened ends by raising DataFileMissing and leaves the engine
\* uninitialized.
C6_OpenFailureRaises ==
    (\/ fileReads >= 1 /\ ~apFile.open
     \/ fileReads = 2 /\ ~igrzFile.open)
    => /\ outcome.kind = "raised"
       /\ outcome.error = "DataFileMissing"
       /\ ~isInitialized

\* C7: a call that reads a file whose range has max <= min raises
\* InvalidTimeRange, and in every state where the engine is initialized
\* ap_max > ap_min and igrz_max > igrz_min.
C7_InvalidRangeRaises ==
    /\ isInitialized => /\ ap_yyyymmddMax > ap_yyyymmddMin
                        /\ igrz_yyyymmddMax > igrz_yyyymmddMin
    /\ (fileReads >= 1 /\ outcome.kind # "diverged" /\ ap_yyyymmddMax <= ap_yyyymmddMin)
       => outcome.kind = "raised" /\ outcome.error = "InvalidTimeRange"
    /\ (fileReads = 2 /\ outcome.kind # "diverged" /\ igrz_yyyymmddMax <= igrz_yyyymmddMin)
       => outcome.kind = "raised" /\ outcome.error = "InvalidTimeRange"

\* Initialize() has raised InvalidTimeRange on an ap.dat whose max is not after
\* its min, and, in another run, on such an ig_rz.dat.
C7_Witness ==
    /\ outcome.op = "Initialize"
    /\ outcome.kind = "raised" /\ outcome.error = "InvalidTimeRange"
    /\ ~isInitialized
    /\ fileReads = 1
    /\ ap_yyyymmddMax = ap_yyyymmddMin

\* C8: an Initialize() call on an initialized engine returns true, opens no
\* file and leaves the four range members and the flag as they were.
C8_InitializeIdempotent ==
    [][(CallOf("Initialize") /\ isInitialized)
       => /\ outcome'.kind = "returned"
          /\ fileReads' = 0
          /\ isInitialized'
          /\ UNCHANGED <<ap_yyyymmddMin, ap_yyyymmddMax, igrz_yyyymmddMin,
                         igrz_yyyymmddMax>>]_vars

\* An Initialize() call has returned on an initialized engine without opening
\* a file: the engine was initialized before the call.
C8_Witness ==
    /\ outcome.op = "Initialize" /\ outcome.kind = "returned"
    /\ isInitialized
    /\ fileReads = 0
    /\ nCalls >= 2

\* The date of a row "yy mm dd ..." of ap.dat with the pivot at 58, packed
DateOfRow(row) ==
    (IF row[1] >= 58 THEN 1900 + row[1] ELSE 2000 + row[1]) * 10000 + row[2] * 100 + row[3]

\* The rows of a file that are not empty
RowsOf(file) == SelectSeq(file.lines, LAMBDA line : line # <<>>)

\* C19: after a call has read an ap.dat with rows, ap_min is the date of the
\* first row and ap_max the date of the last row, each with the year token y
\* taken as 1900 + y when y >= 58 and as 2000 + y otherwise, and packed as
\* year*10000 + month*100 + day.
C19_PivotAndPacking ==
    (/\ fileReads >= 1
     /\ apFile.open
     /\ RowsOf(apFile) # <<>>
     /\ apFile.lines[1] # <<>>)
    => /\ ap_yyyymmddMin = DateOfRow(RowsOf(apFile)[1])
       /\ ap_yyyymmddMax = DateOfRow(RowsOf(apFile)[Len(RowsOf(apFile))])

\* C23: after a call has read an ap.dat that holds rows, ap_min is the date
\* of the first row that is not empty and ap_max the date of the last row
\* that is not empty, wherever the empty lines of the file are: none, one or
\* several at the end, or at the start.
C23_FirstAndLastNonEmptyRows ==
    \A k \in 1..Len(RowsOf(apFile)) :
        (fileReads >= 1 /\ apFile.open)
        => /\ k = 1 => ap_yyyymmddMin = DateOfRow(RowsOf(apFile)[k])
           /\ k = Len(RowsOf(apFile)) => ap_yyyymmddMax = DateOfRow(RowsOf(apFile)[k])

\* C27: GetAPTimeRange() ends for every state of ap.dat: a call that has got
\* as far as ap.dat and no further has returned or raised, and is not left
\* in the loop that reads forward to the last line.
C27_ApRangeTerminates ==
    fileReads = 1 => outcome.kind \in {"returned", "raised"}

\* --------------------------------------------------------------------------
\* The physics model over the dates around the ranges of the two files
\* --------------------------------------------------------------------------

InitWindow ==
    \E igF \in {IgrzJanuary, IgrzWide} :
        Constructed("IRI2007", 6, <<"1", "5">>, 12, <<>>, ApGood, igF, Layered)

NextWindow ==
    \/ \E ep \in Epochs : SetTime(ep)
    \/ \E baseOk \in BOOLEAN, errNo \in {0, 5} : Correction(baseOk, errNo, 0)

SpecWindow == InitWindow /\ [][NextWindow]_vars

\* The packed date of the engine's epoch
Mjdate == PackedDate(yyyy, mmdd)

\* C3: a correction call of the physics model on an engine that is
\* initialized when the dates are tested raises DataOutOfRange exactly when
\* the packed date is earlier than ap_min or later than ap_max; on the dates
\* from ap_min to ap_max, both included, it does not.
C3_RaisesIffOutsideClosedRange ==
    [][(CallOf("Correction") /\ isInitialized')
       => ((outcome'.kind = "raised" /\ outcome'.error = "DataOutOfRange")
           <=> (Mjdate < ap_yyyymmddMin' \/ Mjdate > ap_yyyymmddMax'))]_vars

InitGeometry ==
    \E prov \in Providers :
        Constructed("IRI2007", 6, <<"1", "5">>, 12, <<>>, ApGood, IgrzJanuary, prov)

\* The owner sets the context, then calls.
NextGeometry ==
    \/ nCalls = 0 /\ \E ep \in {Noon(1999, 12, 31)} : SetTime(ep)
    \/ nCalls = 0 /\ \E p \in Stations : SetStationPosition(p)
    \/ nCalls = 0 /\ \E p \in Spacecrafts : SetSpacecraftPosition(p)
    \/ nCalls = 0 /\ \E lambda \in {2} : SetWaveLength(lambda)
    \/ nCalls = 0 /\ \E r \in {7} : SetEarthRadius(r)
    \/ Correction(TRUE, 0, 0)

SpecGeometry == InitGeometry /\ [][NextGeometry]_vars

\* The quadratic of the engine's path
PathQuadratic == Quadratic(stationLoc, spacecraftLoc, earthRadius)

\* The segment from the station to the spacecraft does not cross the shell:
\* the discriminant is not positive, or both roots are above 1, or both are
\* below 0.
NoCrossing(q) ==
    \/ q.discriminant <= 0
    \/ D1Above1(q) /\ D2Above1(q)
    \/ D1Below0(q) /\ D2Below0(q)

\* C1: for a station and a spacecraft whose segment does not cross the shell,
\* TEC() and BendingAngle() return exactly 0, whatever the provider gives.
C1_NoCrossingGivesZero ==
    NoCrossing(PathQuadratic)
    => /\ TEC(stationLoc, spacecraftLoc, earthRadius, provider)
              = [ok |-> TRUE, error |-> "none", val |-> 0, calls |-> 0]
       /\ BendingAngle(stationLoc, spacecraftLoc, earthRadius, waveLength, provider)
              = [ok |-> TRUE, error |-> "none", val |-> 0, calls |-> 0]

\* A correction was returned, with a zero range and a zero angle, for a
\* station outside the shell whose line to the spacecraft meets the shell
\* only behind the station or beyond the spacecraft, under a provider of
\* positive densities.
C1_Witness ==
    /\ PathQuadratic.discriminant > 0
    /\ NoCrossing(PathQuadratic)
    /\ provider = Layered
    /\ waveLength = 2
    /\ outcome.op = "Correction" /\ outcome.kind = "returned"
    /\ outcome.value[1] = 0 /\ outcome.value[2] = 0

\* C5: a correction the physics model returns for a date before igrz_min or
\* after igrz_max, and from ap_min to ap_max, has a zero range, a zero angle
\* and a zero time.
C5_ZeroOutsideIgrzWindow ==
    [][(/\ CallOf("Correction")
        /\ outcome'.kind = "returned"
        /\ Mjdate < igrz_yyyymmddMin' \/ Mjdate > igrz_yyyymmddMax'
        /\ ap_yyyymmddMin' <= Mjdate /\ Mjdate <= ap_yyyymmddMax')
       => /\ outcome'.value[1] = 0
          /\ outcome'.value[2] = 0
          /\ outcome'.value[3][1] = 0]_vars

\* The points, in km, at which a call samples the density on the clipped
\* segment `seg` (in km), in the order of the samples: the midpoints of the
\* NUM_OF_INTERVALS intervals of TEC() from the start of the segment, then
\* for BendingAngle() the end of the segment and the NUM_OF_INTERVALS points
\* one step dR (in metres) apart from there to the start.
StepOf(seg) == VQuot(VScale(KM_TO_M, VSub(seg.end, seg.start)), NUM_OF_INTERVALS)
SampleAt(seg, dR, n) ==
    IF n <= NUM_OF_INTERVALS
    THEN VQuot(VAdd(VScale(KM_TO_M, seg.start), VQuot(VScale(2 * n - 1, dR), 2)), KM_TO_M)
    ELSE VQuot(VSub(VScale(KM_TO_M, seg.end), VScale(n - NUM_OF_INTERVALS - 1, dR)), KM_TO_M)

\* The number of samples of a call that no exception ends.  BendingAngle()
\* takes no sample when the end of the segment is the centre of the Earth:
\* the unit vector of the end then raises before them.
NumSamples(seg) ==
    IF seg.end = ZeroVector THEN NUM_OF_INTERVALS ELSE 2 * NUM_OF_INTERVALS + 1

\* The layer of each sample on the engine's path
LayersOn(seg, dR) == [n \in 1..NumSamples(seg) |-> LayerOf(SampleAt(seg, dR, n))]
SegmentLayers(seg) == LayersOn(seg, StepOf(seg))
PathLayers == SegmentLayers(ClipToShell(stationLoc, PathQuadratic))

\* The least element of a non-empty set of numbers
FirstOf(numbers) == CHOOSE n \in numbers : \A m \in numbers : n <= m

\* The call ends as a call does whose samples are in `layers`: it raises
\* DensityProviderError at the first sample at which the provider reports an
\* error, the last call it makes to the provider; without such a sample it
\* takes every sample.
EndsOnSamples(layers) ==
    LET failing == { n \in DOMAIN layers : provider[layers[n]].error # 0 }
    IN  IF failing # {}
        THEN /\ outcome'.kind = "raised"
             /\ outcome'.error = "DensityProviderError"
             /\ densityCalls' = FirstOf(failing)
        ELSE /\ outcome'.kind = "returned" \/ outcome'.error = "ZeroVector"
             /\ densityCalls' = Len(layers)

\* C12: a correction call ends by returning three entries or by raising one
\* exception without a result; a call of the physics model that gets to the
\* computation on a path crossing the shell raises DensityProviderError when
\* the provider reports an error at any sample of TEC() or of BendingAngle(),
\* and the failing sample is the last call it makes to the provider.
C12_ProviderErrorRaises ==
    [][CallOf("Correction")
       => /\ \/ outcome'.kind = "returned" /\ outcome'.error = "none"
                /\ Len(outcome'.value) = 3
             \/ outcome'.kind = "raised" /\ outcome'.error # "none"
                /\ outcome'.value = <<>>
          /\ (/\ isInitialized'
              /\ ~OutOfTimeRange(ap_yyyymmddMin', ap_yyyymmddMax', Mjdate)
              /\ ~NoCrossing(PathQuadratic))
             => EndsOnSamples(PathLayers)]_vars

\* A call has raised DensityProviderError at the last sample of
\* BendingAngle(), after every sample of TEC() was answered.
C12_Witness ==
    /\ provider = FailingAtSurface
    /\ outcome.op = "Correction" /\ outcome.kind = "raised"
    /\ outcome.error = "DensityProviderError"
    /\ densityCalls = 2 * NUM_OF_INTERVALS + 1

\* The terms of the sum of TEC() on the clipped segment `seg`: the value of
\* every pass of the loop is not negative.
TermsNonNegative(seg) ==
    \A i \in 0..(NUM_OF_INTERVALS - 1) :
        LET pass == TECPass(provider, VScale(KM_TO_M, seg.start), StepOf(seg), i)
        IN  pass.ok => pass.val >= 0

\* C15: TEC() is not negative: the density ElectronDensity() gives at every
\* sample is not negative, whatever the provider answers, no interval has a
\* negative length, so that no pass of the loop takes the sum tec down, and
\* the sum and the range correction a call returns are not negative.
C15_TECNonNegative ==
    /\ \A layer \in ProviderLayers :
           ElectronDensity(provider, IF layer = "surface" THEN <<6000, 0, 0>>
                                     ELSE IF layer = "low" THEN <<6500, 0, 0>>
                                     ELSE <<8000, 0, 0>>).val >= 0
    /\ ~NoCrossing(PathQuadratic)
          => /\ GetMagnitude(StepOf(ClipToShell(stationLoc, PathQuadratic))) >= 0
             /\ TermsNonNegative(ClipToShell(stationLoc, PathQuadratic))
    /\ TEC(stationLoc, spacecraftLoc, earthRadius, provider).val >= 0
    /\ (outcome.op = "Correction" /\ outcome.kind = "returned") => outcome.value[1] >= 0

\* A call has returned a positive range correction from a provider that
\* answers a negative density in the lower layers of the path.
C15_Witness ==
    /\ provider.low.density < 0
    /\ ~NoCrossing(PathQuadratic)
    /\ LayerOf(SampleAt(ClipToShell(stationLoc, PathQuadratic),
                        StepOf(ClipToShell(stationLoc, PathQuadratic)), 1)) = "low"
    /\ outcome.op = "Correction" /\ outcome.kind = "returned"
    /\ densityCalls = 2 * NUM_OF_INTERVALS + 1
    /\ outcome.value[1] > 0

\* The sum of density x length over the midpoints of the NUM_OF_INTERVALS
\* equal intervals of step dR (in metres) of the segment `seg`, by layer: the
\* number of midpoints in the layer, times the density of the layer (0 for a
\* negative one), times the length of dR.
MidpointSum(seg, dR) ==
    LET InLayer(layer) ==
            Cardinality({ n \in 1..NUM_OF_INTERVALS : LayerOf(SampleAt(seg, dR, n)) = layer })
        Term(layer) == InLayer(layer) * Max(0, provider[layer].density) * GetMagnitude(dR)
    IN  Term("surface") + Term("low") + Term("high")

\* The length of the segment in whole km, rounded down
LengthKm(seg) == ISqrt(Dot(VSub(seg.end, seg.start), VSub(seg.end, seg.start)))

\* TEC() on the segment `seg` of a crossing path, for a provider that reports
\* no error on it
SumsMidpoints(seg, tec) ==
    (\A n \in 1..NUM_OF_INTERVALS : provider[LayerOf(SampleAt(seg, StepOf(seg), n))].error = 0)
    => /\ tec.ok
       /\ tec.calls = NUM_OF_INTERVALS
       /\ tec.val = MidpointSum(seg, StepOf(seg))
       /\ provider = Uniform
          => /\ tec.val = Uniform.low.density * NUM_OF_INTERVALS * GetMagnitude(StepOf(seg))
             /\ tec.val >= Uniform.low.density * (KM_TO_M * LengthKm(seg) - NUM_OF_INTERVALS)
             /\ tec.val <= Uniform.low.density * KM_TO_M * (LengthKm(seg) + 1)

\* C16: on a path that crosses the shell TEC() samples the density
\* NUM_OF_INTERVALS times, at the midpoint of each of the NUM_OF_INTERVALS
\* equal intervals of the clipped segment, and returns the sum of density x
\* interval length in metres; for a provider of constant density d that is d
\* x the length of the clipped segment in metres, to the resolution of the
\* lengths (one metre in each interval, the segment's length in whole km).
C16_MidpointSum ==
    ~NoCrossing(PathQuadratic)
    => SumsMidpoints(ClipToShell(stationLoc, PathQuadratic),
                     TEC(stationLoc, spacecraftLoc, earthRadius, provider))

\* A call has returned under the provider of constant density on a segment
\* that crosses both layers and is not along an axis.
C16_Witness ==
    /\ provider = Uniform
    /\ stationLoc = <<10, 0, 0>> /\ spacecraftLoc = <<6, 7, 0>> /\ earthRadius = 7
    /\ ~NoCrossing(PathQuadratic)
    /\ outcome.op = "Correction" /\ outcome.kind = "returned"
    /\ densityCalls = 2 * NUM_OF_INTERVALS + 1
    /\ outcome.value[1] > 0

\* --------------------------------------------------------------------------
\* The table model over the tables, the stations and the epochs
\* --------------------------------------------------------------------------

\* A time of a table, "YY/MM/DD,HH:00"
TwoDigits(n) == <<Digits[(n \div 10) + 1], Digits[(n % 10) + 1]>>
TRKTime(yy, mm, dd, hh) ==
    TwoDigits(yy) \o <<"/">> \o TwoDigits(mm) \o <<"/">> \o TwoDigits(dd) \o <<",">>
    \o TwoDigits(hh) \o <<":", "0", "0">>

STR_SCID_12 == SpacecraftName(12)
STR_DSN_015 == <<"D", "S", "N", "(", "0", "1", "5", ")">>

\* Rows for spacecraft 12: complex C10 and station 15 from 31 Dec 1999 06:00
\* to 02 Jan 2000 06:00, then complex C10 again, and complex C40.
RowComplex10 ==
    Row("DOPRNG", "CONST", <<5000>>, "CHPART", TRKTime(99, 12, 31, 6), TRKTime(0, 1, 2, 6),
        STR_DSN_C10, STR_SCID_12)
RowStation15 ==
    Row("DOPRNG", "CONST", <<700>>, "CHPART", TRKTime(99, 12, 31, 6), TRKTime(0, 1, 2, 6),
        STR_DSN_015, STR_SCID_12)
RowComplex10Trig ==
    Row("RANGE", "TRIG", <<86400, 1000, 2000, 3000>>, "CHPART", TRKTime(0, 1, 2, 6),
        TRKTime(0, 1, 3, 6), STR_DSN_C10, STR_SCID_12)
RowComplex40 ==
    Row("DOPRNG", "NRMPOW", <<1000, 2000, 3000>>, "CHPART", TRKTime(99, 12, 31, 6),
        TRKTime(0, 1, 3, 6), STR_DSN_C40, STR_SCID_12)
RowComplex10Other ==
    Row("DOPRNG", "POLY", <<1000>>, "CHPART", TRKTime(0, 1, 3, 6), TRKTime(0, 1, 4, 6),
        STR_DSN_C10, STR_SCID_12)

\* RowComplex10 and RowStation15, then rows that differ from RowComplex10 in
\* one field each: another spacecraft, another signal type, another record
\* type, a window that ended on 31 Dec 1999 06:00, another complex.
TableOfRejects ==
    <<RowComplex10, RowStation15,
      Row("DOPRNG", "CONST", <<100>>, "CHPART", TRKTime(99, 12, 31, 6), TRKTime(0, 1, 2, 6),
          STR_DSN_C10, SpacecraftName(13)),
      Row("ANGLE", "CONST", <<200>>, "CHPART", TRKTime(99, 12, 31, 6), TRKTime(0, 1, 2, 6),
          STR_DSN_C10, STR_SCID_12),
      Row("DOPRNG", "CONST", <<300>>, "CHEND", TRKTime(99, 12, 31, 6), TRKTime(0, 1, 2, 6),
          STR_DSN_C10, STR_SCID_12),
      Row("DOPRNG", "CONST", <<400>>, "CHPART", TRKTime(99, 12, 29, 6), TRKTime(99, 12, 31, 6),
          STR_DSN_C10, STR_SCID_12),
      Row("DOPRNG", "CONST", <<600>>, "CHPART", TRKTime(99, 12, 31, 6), TRKTime(0, 1, 2, 6),
          STR_DSN_C60, STR_SCID_12)>>

Tables ==
    { <<RowComplex10>>,
      \* a series of two harmonics of period 24 hours from 31 Dec 1999 12:00
      << Row("DOPRNG", "TRIG", <<86400, 100, 20, 30, 4, 5>>, "CHPART", TRKTime(99, 12, 31, 12),
             TRKTime(0, 1, 2, 12), STR_DSN_C10, STR_SCID_12) >>,
      \* two rows for the complex and two for the station over the same
      \* window, after a row for the complex of a model type that is not known
      << Row("DOPRNG", "POLY", <<1000>>, "CHPART", TRKTime(99, 12, 31, 6),
             TRKTime(0, 1, 2, 6), STR_DSN_C10, STR_SCID_12),
         RowComplex10, RowStation15,
         Row("RANGE", "CONST", <<6000>>, "CHPART", TRKTime(99, 12, 31, 6),
             TRKTime(0, 1, 2, 6), STR_DSN_C10, STR_SCID_12),
         Row("RANGE", "CONST", <<800>>, "CHPART", TRKTime(99, 12, 31, 6),
             TRKTime(0, 1, 2, 6), STR_DSN_015, STR_SCID_12) >>,
      \* TRIG rows of three coefficients (a cosine amplitude without its sine
      \* amplitude) and of one coefficient
      << Row("DOPRNG", "TRIG", <<86400, 100, 20>>, "CHPART", TRKTime(99, 12, 31, 12),
             TRKTime(0, 1, 2, 12), STR_DSN_C10, STR_SCID_12),
         Row("DOPRNG", "TRIG", <<86400>>, "CHPART", TRKTime(99, 12, 31, 12),
             TRKTime(0, 1, 2, 12), STR_DSN_C40, STR_SCID_12) >>,
      \* a power series of four coefficients over 48 hours from 31 Dec 1999 12:00
      << Row("RANGE", "NRMPOW", <<500, -1500, 2500, 1000>>, "CHPART", TRKTime(99, 12, 31, 12),
             TRKTime(0, 1, 2, 12), STR_DSN_C10, STR_SCID_12) >>,
      TableOfRejects,
      <<RowComplex10, RowStation15>>,
      <<RowStation15>>,
      <<RowComplex40, RowComplex10, RowComplex10Trig, RowComplex10Other, RowStation15>> }

StationIds == { <<"1", "5">>, <<"4", "5">>, <<"C", "1", "0">>, STR_GDS }

TRKEpochs == { Noon(2000, 1, 1), ModifiedJulianDate(2000, 1, 2, 6), Noon(2000, 1, 2),
               Noon(2000, 1, 3), ModifiedJulianDate(1999, 12, 31, 6), Noon(1999, 12, 31),
               ModifiedJulianDate(2000, 1, 3, 6) }

InitTRK ==
    \E stationId \in StationIds, db \in Tables :
        Constructed("TRK-2-23", 6, stationId, 12, db, ApGood, IgrzJanuary, Layered)

NextTRK ==
    \/ \E ep \in TRKEpochs : SetTime(ep)
    \/ \E lambda \in {2, 4} : SetWaveLength(lambda)
    \/ \E junk \in JunkValues : Correction(TRUE, 0, junk)

SpecTRK == InitTRK /\ [][NextTRK]_vars

\* C9: a correction call leaves the station identifier, the two positions,
\* the wave length and the epoch as they were before the call.
C9_ContextUnchanged ==
    [][CallOf("Correction")
       => UNCHANGED <<groundStationId, stationLoc, spacecraftLoc, waveLength, epoch>>]_vars

\* The last of a non-empty set of row numbers
LastOf(rows) == CHOOSE i \in rows : \A j \in rows : j <= i

\* C10: a call of the table model raises RecordNotFound exactly when no row
\* matches at the level of the complex, whether or not a row matches at the
\* level of the station; a call that returns gives the value of the matching
\* complex row plus, when a station row matches, the value of that row.
C10_RecordNotFoundIffNoComplexRow ==
    [][(CallOf("Correction") /\ modelTypeName = "TRK-2-23")
       => \E junk \in JunkValues :
            LET keys == StationKeys(groundStationId, junk)
                name == SpacecraftName(spacecraftId)
                complexRows == { i \in 1..Len(DSNDatabase) :
                                   MatchesComplex(DSNDatabase[i], keys, name, epoch) }
                stationRows == { i \in 1..Len(DSNDatabase) :
                                   MatchesStation(DSNDatabase[i], keys, name, epoch) }
                Value(rows) == TRK223Solver(DSNDatabase[LastOf(rows)], epoch, waveLength,
                                            junk).val
            IN  /\ groundStationId' = keys.groundStationId
                /\ (outcome'.kind = "raised" /\ outcome'.error = "RecordNotFound")
                   <=> complexRows = {}
                /\ outcome'.kind = "returned"
                   => outcome'.value[1]
                        = Value(complexRows)
                          + (IF stationRows = {} THEN 0 ELSE Value(stationRows))]_vars

\* A call has returned the sum of a complex row and a station row.
C10_Witness ==
    /\ modelTypeName = "TRK-2-23"
    /\ outcome.op = "Correction" /\ outcome.kind = "returned"
    /\ waveLength = 2
    /\ outcome.value[1] = 5700

\* C11: with a table of a single CONST row of first coefficient k, a call of
\* the table model that returns gives (k*(refFreq/freq)^2, 0,
\* k*(refFreq/freq)^2 / c) with refFreq = 2295 MHz and freq = c / waveLength,
\* at every epoch at which the row matches; and every result of the table
\* model has three entries, a zero angle and the range over c as its time.
C11_ConstRecordResult ==
    [][(CallOf("Correction") /\ modelTypeName = "TRK-2-23" /\ outcome'.kind = "returned")
       => /\ Len(outcome'.value) = 3
          /\ outcome'.value[2] = 0
          /\ outcome'.value[3] = <<outcome'.value[1], SPEED_OF_LIGHT_VACUUM>>
          /\ (/\ Len(DSNDatabase) = 1
              /\ DSNDatabase[1][2] = "CONST"
              /\ Len(DSNDatabase[1][3]) >= 1)
             => LET k == DSNDatabase[1][3][1]
                    ratio == IF waveLength = 0 THEN 0
                             ELSE FREQ_S_BAND \div (SPEED_OF_LIGHT_VACUUM \div waveLength)
                IN  outcome'.value[1] = k * ratio * ratio]_vars

\* A call on the table of the single CONST row of coefficient 5000 has
\* returned 5000 * 2^2 at a wave length of twice the S-band wave length, at
\* an epoch inside the window of the row.
C11_Witness ==
    /\ modelTypeName = "TRK-2-23"
    /\ DSNDatabase = <<RowComplex10>>
    /\ waveLength = 4
    /\ epoch = Noon(2000, 1, 1)
    /\ outcome.op = "Correction" /\ outcome.kind = "returned"
    /\ outcome.value = <<20000, 0, <<20000, SPEED_OF_LIGHT_VACUUM>>>>

\* The conditions on a row: the spacecraft key, the signal type, the facility
\* key (the complex key or the station key), the record type, and the epoch
\* not before the start and not after the end of the window.
Contributes(row, keys, scName, ep) ==
    /\ row[8] = scName
    /\ row[1] \in {"DOPRNG", "RANGE"}
    /\ row[7] \in {keys.DSNComplexName, keys.groundStationId}
    /\ row[4] = "CHPART"
    /\ GetTRK223Time(row[5]) <= ep
    /\ ep <= GetTRK223Time(row[6])

\* The table without the rows that fail one of the conditions
ContributingRows(db, keys, scName, ep) ==
    SelectSeq(db, LAMBDA row : Contributes(row, keys, scName, ep))

\* C17: a call of the table model ends as it would on the table without the
\* rows that fail one of the conditions (spacecraft key, signal type DOPRNG or
\* RANGE, facility key equal to the complex key or the station key, record
\* type CHPART, epoch within the window): such rows never change the result.
C17_OnlyMatchingRowsContribute ==
    [][(CallOf("Correction") /\ modelTypeName = "TRK-2-23")
       => \E junk \in JunkValues :
            LET keys == StationKeys(groundStationId, junk)
                rows == ContributingRows(DSNDatabase, keys, SpacecraftName(spacecraftId), epoch)
                kept == CalculateTRK223(groundStationId, spacecraftId, rows, epoch,
                                        waveLength, junk)
            IN  /\ outcome'.kind = kept.kind
                /\ outcome'.error = kept.error
                /\ outcome'.value = kept.value]_vars

\* A call has returned the sum of the complex row and the station row of a
\* table that also holds a row failing each of the conditions.
C17_Witness ==
    /\ modelTypeName = "TRK-2-23"
    /\ DSNDatabase = TableOfRejects
    /\ Len(ContributingRows(DSNDatabase, StationKeys(<<"1", "5">>, 0), SpacecraftName(spacecraftId), epoch)) = 2
    /\ outcome.op = "Correction" /\ outcome.kind = "returned"
    /\ waveLength = 2
    /\ outcome.value[1] = 5700

\* A row of the table for the complex key of the call whose window, with its
\* end left out (`closed` FALSE) or included (`closed` TRUE), holds the epoch
ComplexRowAt(closed, junk) ==
    \E i \in 1..Len(DSNDatabase) :
        LET row == DSNDatabase[i]
        IN  /\ row[8] = SpacecraftName(spacecraftId)
            /\ row[1] \in {"DOPRNG", "RANGE"}
            /\ row[7] = StationKeys(groundStationId, junk).DSNComplexName
            /\ row[4] = "CHPART"
            /\ GetTRK223Time(row[5]) <= epoch
            /\ IF closed THEN epoch <= GetTRK223Time(row[6]) ELSE epoch < GetTRK223Time(row[6])

\* C18 as stated: a record applies on [validStart, validEnd), so that a call
\* of the table model finds a record exactly when a row for its complex has
\* validStart <= epoch < validEnd, and raises RecordNotFound otherwise.
C18_HalfOpenWindow ==
    [][(CallOf("Correction") /\ modelTypeName = "TRK-2-23")
       => \E junk \in JunkValues :
            (outcome'.kind = "raised" /\ outcome'.error = "RecordNotFound")
            <=> ~ComplexRowAt(FALSE, junk)]_vars

\* C18: a record applies on the closed window [validStart, validEnd]: a call
\* of the table model finds a record exactly when a row for its complex has
\* validStart <= epoch <= validEnd, and a row whose validEnd is the epoch is
\* found and evaluated.
C18_ClosedWindow ==
    [][(CallOf("Correction") /\ modelTypeName = "TRK-2-23")
       => \E junk \in JunkValues :
            /\ (outcome'.kind = "raised" /\ outcome'.error = "RecordNotFound")
               <=> ~ComplexRowAt(TRUE, junk)
            /\ (/\ DSNDatabase = <<RowComplex10>>
                /\ epoch = GetTRK223Time(RowComplex10[6])
                /\ groundStationId = <<"1", "5">>)
               => /\ outcome'.kind = "returned"
                  /\ outcome'.value[1] = Rescale(RowComplex10[3][1], waveLength)]_vars

\* A call at the epoch at which the window of the only row ends has returned
\* the value of the row.
C18_Witness ==
    /\ modelTypeName = "TRK-2-23"
    /\ DSNDatabase = <<RowComplex10>>
    /\ epoch = GetTRK223Time(RowComplex10[6])
    /\ waveLength = 2
    /\ outcome.op = "Correction" /\ outcome.kind = "returned"
    /\ outcome.value[1] = 5000

\* b to the power e
RECURSIVE IPow(_, _)
IPow(b, e) == IF e = 0 THEN 1 ELSE b * IPow(b, e - 1)

\* The sum over i = 0 .. n-1 of coefs[i] * (p/q)^i, times q^(n-1), from index i on
RECURSIVE SeriesNumerator(_, _, _, _)
SeriesNumerator(coefs, p, q, i) ==
    IF i >= Len(coefs) THEN 0
    ELSE coefs[i + 1] * IPow(p, i) * IPow(q, Len(coefs) - 1 - i)
         + SeriesNumerator(coefs, p, q, i + 1)

\* The resolution of the fixed-point power series: for each coefficient one
\* unit, and 2i units of x^i (x and each product are rounded to 1/1000)
\* times the coefficient
RECURSIVE SeriesResolution(_, _)
SeriesResolution(coefs, i) ==
    IF i >= Len(coefs) THEN 0
    ELSE 2 + (Abs(coefs[i + 1]) * 2 * i) \div 1000 + SeriesResolution(coefs, i + 1)

\* The value `val` of a call at epoch t on the NRMPOW row `row`, before the
\* rescaling by `scale`: with x = p/q, p = 2(t - validStart) - (validEnd -
\* validStart) and q = validEnd - validStart
IsPowerSeries(row, t, val, scale) ==
    LET start == GetTRK223Time(row[5])
        q == GetTRK223Time(row[6]) - start
        p == 2 * (t - start) - q
        scaled == scale * IPow(q, Len(row[3]) - 1)
    IN  /\ -q <= p /\ p <= q
        /\ t = start => p = -q
        /\ t = start + q => p = q
        /\ Abs(val * IPow(q, Len(row[3]) - 1) - scale * SeriesNumerator(row[3], p, q, 0))
              <= scaled * SeriesResolution(row[3], 0)
        /\ p \in {-q, 0, q} => val = scale * SeriesNumerator(row[3], p \div q, 1, 0)

\* C24: a call of the table model that finds an NRMPOW row of validStart <
\* validEnd for the complex, and no row for the station, returns the sum over
\* all the coefficients of coef[i] * x^i, rescaled, with x = 2*(t -
\* validStart)/(validEnd - validStart) - 1, which is in [-1, 1], -1 at
\* validStart and +1 at validEnd: exactly at x = -1, 0, +1 and to the
\* resolution of the fixed-point series elsewhere.
C24_NormalizedPowerSeries ==
    [][(CallOf("Correction") /\ modelTypeName = "TRK-2-23" /\ outcome'.kind = "returned")
       => \E junk \in JunkValues :
            LET keys == StationKeys(groundStationId, junk)
                name == SpacecraftName(spacecraftId)
                complexRows == { i \in 1..Len(DSNDatabase) :
                                   MatchesComplex(DSNDatabase[i], keys, name, epoch) }
                stationRows == { i \in 1..Len(DSNDatabase) :
                                   MatchesStation(DSNDatabase[i], keys, name, epoch) }
            IN  /\ groundStationId' = keys.groundStationId
                /\ (stationRows = {} /\ DSNDatabase[LastOf(complexRows)][2] = "NRMPOW")
                   => IsPowerSeries(DSNDatabase[LastOf(complexRows)], epoch, outcome'.value[1],
                                    Rescale(1, waveLength))]_vars

\* A call at the end of the window of the row of four coefficients has
\* returned their sum, 500 - 1500 + 2500 + 1000; x is +1 there.
C24_Witness ==
    /\ modelTypeName = "TRK-2-23"
    /\ Len(DSNDatabase) = 1 /\ DSNDatabase[1][2] = "NRMPOW"
    /\ epoch = GetTRK223Time(DSNDatabase[1][6])
    /\ waveLength = 2
    /\ outcome.op = "Correction" /\ outcome.kind = "returned"
    /\ outcome.value[1] = 2500

\* The sum of the coefficients at the places first, first + 2, ... (from 1)
RECURSIVE SumEverySecond(_, _)
SumEverySecond(coefs, first) ==
    IF first > Len(coefs) THEN 0 ELSE coefs[first] + SumEverySecond(coefs, first + 2)

\* The sum over the harmonics k, k + 1, ... of a row of complete pairs of
\* cosine amplitude * Cos(k * angle) + sine amplitude * Sin(k * angle), the
\* pair of harmonic k being the coefficients 2k + 1 and 2k + 2 (from 1)
RECURSIVE Harmonics(_, _, _)
Harmonics(coefs, quarters, k) ==
    IF 2 * k + 2 > Len(coefs) THEN 0
    ELSE coefs[2 * k + 1] * CosQuarter(quarters * k)
         + coefs[2 * k + 2] * SinQuarter(quarters * k)
         + Harmonics(coefs, quarters, k + 1)

\* The TRIG row a call finds for the complex when it finds none for the
\* station, or <<>>
TrigRowFound(junk) ==
    LET keys == StationKeys(groundStationId, junk)
        name == SpacecraftName(spacecraftId)
        complexRows == { i \in 1..Len(DSNDatabase) :
                           MatchesComplex(DSNDatabase[i], keys, name, epoch) }
        stationRows == { i \in 1..Len(DSNDatabase) :
                           MatchesStation(DSNDatabase[i], keys, name, epoch) }
    IN  IF complexRows # {} /\ stationRows = {} /\ DSNDatabase[LastOf(complexRows)][2] = "TRIG"
        THEN DSNDatabase[LastOf(complexRows)] ELSE <<>>

\* C25 as stated: at epoch = validStart the result of a TRIG row, before the
\* rescaling, is the sum of the 2nd, 4th, 6th, ... coefficients.
C25_SumOfEvenPlacesAtStart ==
    [][(CallOf("Correction") /\ modelTypeName = "TRK-2-23" /\ outcome'.kind = "returned")
       => \E junk \in JunkValues :
            LET row == TrigRowFound(junk)
            IN  /\ groundStationId' = StationKeys(groundStationId, junk).groundStationId
                /\ (row # <<>> /\ epoch = GetTRK223Time(row[5]))
                   => outcome'.value[1] = Rescale(SumEverySecond(row[3], 2), waveLength)]_vars

\* C25: the first coefficient of a TRIG row only sets the angular frequency,
\* the second is a constant term, and the coefficients after the second are
\* the (cosine, sine) amplitudes of the harmonics 1, 2, ... in order; at
\* epoch = validStart the result before the rescaling is the second
\* coefficient plus the cosine amplitudes, the 2nd, 3rd, 5th, 7th, ...
\* coefficients.
C25_ConstantPlusHarmonics ==
    [][(CallOf("Correction") /\ modelTypeName = "TRK-2-23" /\ outcome'.kind = "returned")
       => \E junk \in JunkValues :
            LET row == TrigRowFound(junk)
                quarters == ((epoch - GetTRK223Time(row[5])) * 3600 * 4) \div row[3][1]
            IN  /\ groundStationId' = StationKeys(groundStationId, junk).groundStationId
                /\ (row # <<>> /\ Len(row[3]) >= 2 /\ epoch = GetTRK223Time(row[5]))
                   => outcome'.value[1]
                        = Rescale(row[3][2] + SumEverySecond(row[3], 3), waveLength)
                /\ (row # <<>> /\ Len(row[3]) >= 2 /\ Len(row[3]) % 2 = 0)
                   => outcome'.value[1]
                        = Rescale(row[3][2] + Harmonics(row[3], quarters, 1), waveLength)]_vars

\* A call at the start of the window of the row <<86400, 1000, 2000, 3000>>
\* has returned 1000 + 2000; and, in another run, a call 42 hours into the
\* window of the row of two harmonics 100 - 30 - 4.
C25_Witness ==
    /\ modelTypeName = "TRK-2-23"
    /\ DSNDatabase[Len(DSNDatabase)] = RowStation15
    /\ epoch = GetTRK223Time(RowComplex10Trig[5])
    /\ waveLength = 2
    /\ outcome.op = "Correction" /\ outcome.kind = "returned"
    /\ outcome.value[1] = 3000

\* C26: TRK223Solver() reads no coefficient past the end of the row's
\* coefficients, whatever the model type and the number of coefficients: the
\* value of the row a call finds for the complex does not depend on what
\* lies behind the last coefficient.
C26_ReadsInsideCoefficients ==
    [][(CallOf("Correction") /\ modelTypeName = "TRK-2-23")
       => \E junk \in JunkValues :
            LET keys == StationKeys(groundStationId, junk)
                complexRows == { i \in 1..Len(DSNDatabase) :
                                   MatchesComplex(DSNDatabase[i], keys,
                                                  SpacecraftName(spacecraftId), epoch) }
                Value(behind) == TRK223Solver(DSNDatabase[LastOf(complexRows)], epoch,
                                              waveLength, behind)
            IN  /\ groundStationId' = keys.groundStationId
                /\ complexRows # {}
                   => \A behind \in JunkValues : Value(behind) = Value(0)]_vars

\* The rows `rows` of the table that come last in it, as a table of at most
\* one row
LastRowOnly(rows) == IF rows = {} THEN <<>> ELSE <<DSNDatabase[LastOf(rows)]>>

\* C28: when several rows pass the tests for the complex at the epoch, or
\* several the tests for the station, a call evaluates one row of each
\* level, the one that comes last in the table: it ends as it would on the
\* table that holds only the last of the rows of each level, and the rows
\* before them are neither evaluated nor added.
C28_LastMatchingRowOnly ==
    [][(CallOf("Correction") /\ modelTypeName = "TRK-2-23")
       => \E junk \in JunkValues :
            LET keys == StationKeys(groundStationId, junk)
                name == SpacecraftName(spacecraftId)
                complexRows == { i \in 1..Len(DSNDatabase) :
                                   MatchesComplex(DSNDatabase[i], keys, name, epoch) }
                stationRows == { i \in 1..Len(DSNDatabase) :
                                   MatchesStation(DSNDatabase[i], keys, name, epoch) }
                last == CalculateTRK223(groundStationId, spacecraftId,
                                        LastRowOnly(complexRows) \o LastRowOnly(stationRows),
                                        epoch, waveLength, junk)
            IN  /\ groundStationId' = keys.groundStationId
                /\ (Cardinality(complexRows) > 1 \/ Cardinality(stationRows) > 1)
                   => /\ outcome'.kind = last.kind
                      /\ outcome'.error = last.error
                      /\ outcome'.value = last.value]_vars

\* A call on the table of two rows for the complex (5000, then 6000) and two
\* for the station (700, then 800) has returned 6000 + 800.
C28_Witness ==
    /\ modelTypeName = "TRK-2-23"
    /\ Len(DSNDatabase) = 5 /\ DSNDatabase[1][2] = "POLY"
    /\ epoch = Noon(2000, 1, 1)
    /\ waveLength = 2
    /\ outcome.op = "Correction" /\ outcome.kind = "returned"
    /\ outcome.value[1] = 6800

\* --------------------------------------------------------------------------
\* The table model over the station identifiers
\* --------------------------------------------------------------------------

\* A table with one CONST row for each complex, from 31 Dec 1999 06:00 to
\* 03 Jan 2000 06:00
RowOfComplex(facility, k) ==
    Row("RANGE", "CONST", <<k>>, "CHPART", TRKTime(99, 12, 31, 6), TRKTime(0, 1, 3, 6),
        facility, STR_SCID_12)
TableOfComplexes ==
    <<RowOfComplex(STR_DSN_C10, 1000), RowOfComplex(STR_DSN_C40, 2000),
      RowOfComplex(STR_DSN_C60, 3000)>>

\* Station identifiers: the three abbreviations, station numbers on both
\* sides of 30 and of 50, and numbers written with a leading C
NumberedStationIds ==
    { <<"1", "5">>, <<"2", "9">>, <<"3", "0">>, <<"4", "9">>, <<"5", "0">>, <<"6", "5">>,
      <<"C", "1", "0">>, <<"C", "4", "5">>, <<"C", "6", "0">> }
AllStationIds == NumberedStationIds \cup {STR_GDS, STR_CAN, STR_MAD}

InitKeys ==
    \E stationId \in AllStationIds :
        Constructed("TRK-2-23", 6, stationId, 12, TableOfComplexes, ApGood, IgrzJanuary,
                    Layered)

NextKeys ==
    \/ \E ep \in {Noon(2000, 1, 1)} : SetTime(ep)
    \/ \E lambda \in {2, 4} : SetWaveLength(lambda)
    \/ \E junk \in JunkValues : Correction(TRUE, 0, junk)

SpecKeys == InitKeys /\ [][NextKeys]_vars

\* The call ends as a scan with the complex key `complex` ends on a table
\* without station rows: it returns the rescaled coefficient of the last
\* CONST row of that complex whose window holds the epoch, and raises
\* RecordNotFound when there is none.
ScansWithComplex(complex) ==
    LET rows == { i \in 1..Len(DSNDatabase) :
                    /\ DSNDatabase[i][7] = complex
                    /\ GetTRK223Time(DSNDatabase[i][5]) <= epoch
                    /\ epoch <= GetTRK223Time(DSNDatabase[i][6]) }
        ratio == IF waveLength = 0 THEN 0
                 ELSE FREQ_S_BAND \div (SPEED_OF_LIGHT_VACUUM \div waveLength)
    IN  IF rows = {}
        THEN outcome'.kind = "raised" /\ outcome'.error = "RecordNotFound"
        ELSE /\ outcome'.kind = "returned"
             /\ outcome'.value[1] = DSNDatabase[LastOf(rows)][3][1] * ratio * ratio

\* C13: for the station identifiers GDS, CAN and MAD a call of the table
\* model scans with the complex key DSN(C10), DSN(C40) and DSN(C60).
C13_AbbreviationComplex ==
    [][(CallOf("Correction") /\ modelTypeName = "TRK-2-23")
       => /\ groundStationId = STR_GDS => ScansWithComplex(STR_DSN_C10)
          /\ groundStationId = STR_CAN => ScansWithComplex(STR_DSN_C40)
          /\ groundStationId = STR_MAD => ScansWithComplex(STR_DSN_C60)]_vars

\* The station number of an identifier made of decimal digits, with or
\* without a leading C; -1 for any other identifier
NumberOf(stationId) ==
    LET digits == IF stationId # <<>> /\ stationId[1] = "C" THEN Tail(stationId)
                  ELSE stationId
    IN  IF digits # <<>> /\ \A k \in 1..Len(digits) : digits[k] \in {Digits[d] : d \in 1..10}
        THEN DecimalValue(digits) ELSE -1

\* C14: for a station identifier that is a station number N, with or
\* without a leading C, a call of the table model scans with the complex key
\* DSN(C10) when N < 30, DSN(C40) when 30 <= N <= 49 and DSN(C60) when
\* N >= 50.
C14_NumberComplex ==
    [][(CallOf("Correction") /\ modelTypeName = "TRK-2-23" /\ NumberOf(groundStationId) >= 0)
       => LET N == NumberOf(groundStationId)
          IN  ScansWithComplex(IF N < 30 THEN STR_DSN_C10
                               ELSE IF N <= 49 THEN STR_DSN_C40 ELSE STR_DSN_C60)]_vars

\* A call for station 50 has returned the row of DSN(C60), and the engine
\* holds the station key of station 50.
C14_Witness ==
    /\ groundStationId = STR_DSN_OPEN0 \o <<"5", "0">> \o STR_CLOSE
    /\ nCalls = 1
    /\ waveLength = 2
    /\ outcome.op = "Correction" /\ outcome.kind = "returned"
    /\ outcome.value[1] = 3000

\* --------------------------------------------------------------------------
\* The two models over files and tables with the year tokens 68 and 69
\* --------------------------------------------------------------------------

\* ap.dat from 31 Dec (19)68 to 2 Jan (19)69, and from 1 Jan (19)69 to 2 Jan 2000
Ap68 == ApFile(TRUE, << <<68, 12, 31, 7>>, <<69, 1, 2, 7>> >>, TRUE)
Ap69 == ApFile(TRUE, << <<69, 1, 1, 7>>, <<0, 1, 2, 7>> >>, TRUE)

\* A table whose only row has the window "68/12/31,06:00" to "69/01/02,06:00",
\* and one whose only row has the window "69/01/01,06:00" to "68/01/01,06:00"
Table68To69 ==
    << Row("DOPRNG", "CONST", <<5000>>, "CHPART", TRKTime(68, 12, 31, 6), TRKTime(69, 1, 2, 6),
           STR_DSN_C10, STR_SCID_12) >>
Table69To68 ==
    << Row("DOPRNG", "CONST", <<5000>>, "CHPART", TRKTime(69, 1, 1, 6), TRKTime(68, 1, 1, 6),
           STR_DSN_C10, STR_SCID_12) >>

InitYears ==
    \E model \in {"IRI2007", "TRK-2-23"}, apF \in {Ap68, Ap69}, db \in {Table68To69, Table69To68} :
        Constructed(model, 6, <<"1", "5">>, 12, db, apF, IgrzJanuary, Layered)

NextYears ==
    \/ \E ep \in {Noon(1968, 12, 31), Noon(1969, 1, 1), Noon(2000, 1, 1), Noon(2068, 6, 1)} :
           SetTime(ep)
    \/ \E lambda \in {2, 4} : SetWaveLength(lambda)
    \/ Initialize(TRUE, 0, 0)
    \/ Correction(TRUE, 0, 0)

SpecYears == InitYears /\ [][NextYears]_vars

\* The year of a year token 68 or 69: as stated (`stated` TRUE) 68 is 1968,
\* and 69 is 2069 in a time of the table and 1969 in a row of ap.dat;
\* otherwise 68 is 1968 in a row of ap.dat and 2068 in a time of the table,
\* and 69 is 1969 in both.
YearOfToken(stated, parser, yy) ==
    IF yy = 68 THEN (IF stated \/ parser = "index" THEN 1968 ELSE 2068)
    ELSE IF stated /\ parser = "table" THEN 2069 ELSE 1969

\* The time "YY/MM/DD,HH:00" of a table with its year token read that way
TimeWithYear(stated, time) ==
    ModifiedJulianDate(YearOfToken(stated, "table", DecimalValue(Substr(time, 0, 2))),
                       DecimalValue(Substr(time, 3, 2)), DecimalValue(Substr(time, 6, 2)),
                       DecimalValue(Substr(time, 9, 2)))

\* A call that reads ap.dat leaves in ap_min the date of the first row with
\* its year token read that way, and a call of the table model finds the row
\* of the table exactly when the epoch is in the window with the year tokens
\* read that way.
YearTokensRead(stated) ==
    /\ (CallOf("Initialize") /\ fileReads' >= 1)
       => ap_yyyymmddMin' = YearOfToken(stated, "index", apFile.lines[1][1]) * 10000
                            + apFile.lines[1][2] * 100 + apFile.lines[1][3]
    /\ (CallOf("Correction") /\ modelTypeName = "TRK-2-23")
       => (outcome'.kind = "returned"
           <=> /\ TimeWithYear(stated, DSNDatabase[1][5]) <= epoch
               /\ epoch <= TimeWithYear(stated, DSNDatabase[1][6]))

\* C20 as stated: the year token "68" is read as 1968, and the year token
\* "69" as 2069 in a time of the table and as 1969 in a row of ap.dat.
C20_YearTokensAsStated == [][YearTokensRead(TRUE)]_vars

\* C20: the year token "68" is read as 1968 in a row of ap.dat and as 2068
\* in a time of the table; the year token "69" is read as 1969 in both.
C20_YearTokens == [][YearTokensRead(FALSE)]_vars

\* After Initialize() on the ap.dat that starts in (19)68, a call of the table
\* model at noon of 1 Jan 2000 has found the row of the window
\* "69/01/01,06:00" to "68/01/01,06:00".
C20_Witness ==
    /\ modelTypeName = "TRK-2-23"
    /\ apFile = Ap68 /\ isInitialized /\ ap_yyyymmddMin = 19681231
    /\ DSNDatabase = Table69To68
    /\ epoch = Noon(2000, 1, 1)
    /\ waveLength = 2
    /\ outcome.op = "Correction" /\ outcome.kind = "returned"
    /\ outcome.value[1] = 5000

\* The year of the two-digit year y with the pivot at 69
PivotYear69(y) == IF y >= 69 THEN 1900 + y ELSE 2000 + y

\* The time "YY/MM/DD,HH:00" of a table with its year taken by the pivot at 69
TimeByPivot69(time) ==
    ModifiedJulianDate(PivotYear69(DecimalValue(Substr(time, 0, 2))),
                       DecimalValue(Substr(time, 3, 2)), DecimalValue(Substr(time, 6, 2)),
                       DecimalValue(Substr(time, 9, 2)))

\* C21: GetTRK223Time() takes a year token y as 1900 + y when y >= 69 and as
\* 2000 + y when y < 69: the calendar year of the time it returns is that
\* year for every token 00 .. 99, and a call of the table model finds the row
\* of the table exactly when the epoch is in the window with the years taken
\* that way.
C21_PivotAt69 ==
    [][(CallOf("Correction") /\ modelTypeName = "TRK-2-23")
       => /\ \A y \in 0..99 :
                ToGregorian(GetTRK223Time(TRKTime(y, 1, 1, 6))).year = PivotYear69(y)
          /\ outcome'.kind = "returned"
             <=> /\ TimeByPivot69(DSNDatabase[1][5]) <= epoch
                 /\ epoch <= TimeByPivot69(DSNDatabase[1][6])]_vars

\* A call at noon of 1 Jan 1969 has found the row of the window that starts
\* at "69/01/01,06:00".
C21_Witness ==
    /\ modelTypeName = "TRK-2-23"
    /\ DSNDatabase = Table69To68
    /\ epoch = Noon(1969, 1, 1)
    /\ waveLength = 4
    /\ outcome.op = "Correction" /\ outcome.kind = "returned"
    /\ outcome.value[1] = 20000

\* --------------------------------------------------------------------------
\* Initialization over the months and years of the range of ig_rz.dat
\* --------------------------------------------------------------------------

\* ig_rz.dat files whose range starts in a month of 1899 and ends in a month
\* of a year of either kind: 1900 and 2100 (multiples of 100 but not of 400),
\* 2000 (a multiple of 400), 2004 (a multiple of 4), 2001 and 2002.
InitCalendar ==
    \E monthMin \in {1, 12}, monthMax \in 1..12, yearMax \in {1900, 2000, 2001, 2002, 2004, 2100} :
        Constructed("IRI2007", 6, <<"1", "5">>, 12, <<>>, ApGood,
                    IgrzFile(TRUE, <<TextLine, BlankLine, RangeLine(monthMin, 1899, monthMax, yearMax)>>),
                    Layered)

NextCalendar ==
    \/ \E baseOk \in BOOLEAN, errNo \in ErrNos : Initialize(baseOk, errNo, 0)
    \/ \E ep \in {Noon(2000, 1, 1)} : SetTime(ep)

SpecCalendar == InitCalendar /\ [][NextCalendar]_vars

\* The number of days of a month of a year of the Gregorian calendar
DaysInMonth(month, year) ==
    LET leap == (year % 400 = 0) \/ (year % 4 = 0 /\ year % 100 # 0)
    IN  <<31, IF leap THEN 29 ELSE 28, 31, 30, 31, 30, 31, 31, 30, 31, 30, 31>>[month]

\* C22: a call that reads (monthMin, yearMin, monthMax, yearMax) from
\* ig_rz.dat with the months in 1..12 leaves in igrz_min the first day of
\* monthMin/yearMin and in igrz_max the last calendar day of
\* monthMax/yearMax: 31, 30, or for February 29 in a leap year of the
\* Gregorian calendar and 28 otherwise.
C22_LastDayOfMonth ==
    [][(CallOf("Initialize") /\ fileReads' = 2)
       => LET line == igrzFile.lines[SkipBlankLines(igrzFile, SkipBlankLines(igrzFile, 0))]
          IN  (line.kind = "range" /\ line.monthMin \in 1..12 /\ line.monthMax \in 1..12)
              => /\ igrz_yyyymmddMin' = line.yearMin * 10000 + line.monthMin * 100 + 1
                 /\ igrz_yyyymmddMax' = line.yearMax * 10000 + line.monthMax * 100
                                         + DaysInMonth(line.monthMax, line.yearMax)]_vars

\* Initialize() has returned on a file whose range ends in February 1900,
\* which has 28 days; in other runs on February 2000 and February 2004.
C22_Witness ==
    /\ outcome.op = "Initialize" /\ outcome.kind = "returned"
    /\ isInitialized /\ fileReads = 2
    /\ igrz_yyyymmddMin = 18991201
    /\ igrz_yyyymmddMax = 19000228

\* --------------------------------------------------------------------------
\* The engine under each model name
\* --------------------------------------------------------------------------

ModelTypeNames == {"IRI2007", "TRK-2-23", "IRI2016"}

Init ==
    \E model \in ModelTypeNames :
        Constructed(model, 6, <<"1", "5">>, 12, <<RowComplex10, RowStation15>>,
                    ApGood, IgrzJanuary, Layered)

Next ==
    \/ \E ep \in {Noon(2000, 1, 1)} : SetTime(ep)
    \/ \E lambda \in {2} : SetWaveLength(lambda)
    \/ \E p \in {<<6, 0, 0>>} : SetStationPosition(p)
    \/ \E p \in {<<10, 0, 0>>} : SetSpacecraftPosition(p)
    \/ \E r \in {7} : SetEarthRadius(r)
    \/ Initialize(TRUE, 0, 0)
    \/ \E junk \in {0, 40} : Correction(TRUE, 0, junk)

Spec == Init /\ [][Next]_vars

\* C2: Correction() runs the physics model under the name "IRI2007" and the
\* table model under "TRK-2-23"; under any other name it logs the message of
\* the unrecognized model, raises and returns nothing; and a result it
\* returns has three entries, the range, the angle and the time, which is the
\* range over the speed of light.
C2_Dispatch ==
    [][CallOf("Correction")
       => /\ modelTypeName = "IRI2007"
             => /\ log' = log \/ log' = Append(log, IGRZ_WARNING)
                /\ UNCHANGED groundStationId
                /\ outcome'.kind = "returned"
                   => outcome'.value
                        = CalculateIRI2007(igrz_yyyymmddMin', igrz_yyyymmddMax',
                                           ap_yyyymmddMin', ap_yyyymmddMax',
                                           igrz_WarningCount, yyyy, mmdd, stationLoc,
                                           spacecraftLoc, earthRadius, waveLength,
                                           provider).value
          /\ modelTypeName = "TRK-2-23"
             => /\ log' = log
                /\ \E junk \in JunkValues :
                     LET trk == CalculateTRK223(groundStationId, spacecraftId, DSNDatabase,
                                                epoch, waveLength, junk)
                     IN  /\ outcome'.kind = trk.kind
                         /\ outcome'.error = trk.error
                         /\ outcome'.value = trk.value
          /\ modelTypeName \notin {"IRI2007", "TRK-2-23"}
             => /\ log' = Append(log, UNRECOGNIZED_MODEL)
                /\ outcome'.kind = "raised"
                /\ outcome'.error = "UnrecognizedModel"
                /\ outcome'.value = <<>>
          /\ outcome'.kind = "returned"
             => /\ Len(outcome'.value) = 3
                /\ outcome'.value[3] = <<outcome'.value[1], SPEED_OF_LIGHT_VACUUM>>]_vars

\* A call under a name that is neither "IRI2007" nor "TRK-2-23" has logged
\* the message and raised.
C2_Witness ==
    /\ modelTypeName = "IRI2016"
    /\ outcome.op = "Correction"
    /\ outcome.kind = "raised" /\ outcome.error = "UnrecognizedModel"
    /\ log # <<>> /\ log[Len(log)] = UNRECOGNIZED_MODEL

====
